---- MODULE Spec2Model ----
(***************************************************************************)
(* Model of the Alembic history validator                                  *)
(*   lib/rucio/db/sqla/alembic_validation.py  (validate_history and its    *)
(*   helpers) and lib/rucio/db/sqla/_fingerprint.py (schema_fingerprint).  *)
(*                                                                         *)
(* One run of validate_history is a sequential program; every call it      *)
(* makes to the migration executor, the reflector, the is_old_db probe or  *)
(* the issue callback is one step, in the order of the source.             *)
(***************************************************************************)
EXTENDS Integers, Sequences, FiniteSets, TLC

\* ---------------------------------------------------------------- bounds
\* Largest number of revisions a repository holds.
MaxRevs == 3

\* ------------------------------------------------------------- universes
_BASE_REVISION == "__BASE__"

\* Python's None where a text, a token tuple or a diff is expected, and where
\* an Issue is expected.
None == <<"None">>

NoIssue == [kind |-> "None"]

\* Revision identifiers, listed in the order Python's sorted() gives them.
RevNames == <<"r1", "r2", "r3", "r4", "r5">>

RevUniverse == {RevNames[i] : i \in 1..MaxRevs}

RevIndex(r) == CHOOSE i \in 1..Len(RevNames) : RevNames[i] = r

\* sorted(): "__BASE__" sorts before every "r<i>".
RevLess(a, b) ==
    IF a = _BASE_REVISION THEN b # _BASE_REVISION
    ELSE IF b = _BASE_REVISION THEN FALSE
    ELSE RevIndex(a) < RevIndex(b)

MinRev(S) == CHOOSE a \in S : \A b \in S : a = b \/ RevLess(a, b)

\* A repository as ScriptDirectory.walk_revisions shows it: the revisions and
\* the down_revision set each of them declares.
Scripts ==
    UNION {[revs : {{RevNames[i] : i \in 1..n}},
            down : [{RevNames[i] : i \in 1..n} -> SUBSET {RevNames[i] : i \in 1..n}]]
           : n \in 0..MaxRevs}

\* ------------------------------------------------------------------ Issue
Issue(kind, at_revision, path, detail) ==
    [kind |-> kind, at_revision |-> at_revision, path |-> path, detail |-> detail,
     fingerprint_before |-> None, fingerprint_after |-> None, fingerprint_diff |-> None]

\* ------------------------------------------------------- revision graph
\* script.get_heads(): the revisions no other revision names as down_revision.
get_heads(script) ==
    {r \in script.revs : \A c \in script.revs : r \notin script.down[c]}

\* Mutant of _assert_single_head: the head is not compared with
\* ALEMBIC_REVISION.
_assert_single_head_without_code_head_check(script, ALEMBIC_REVISION) ==
    LET heads == get_heads(script) IN
    IF Cardinality(heads) # 1
    THEN Issue("multi-head-repository", "repository", <<"repository", "heads">>,
               <<"Expected a single head", Cardinality(heads), heads>>)
    ELSE NoIssue

\* _assert_single_head: NoIssue, or the issue it returns.
_assert_single_head(script, ALEMBIC_REVISION) ==
    LET heads == get_heads(script) IN
    IF Cardinality(heads) # 1
    THEN Issue("multi-head-repository", "repository", <<"repository", "heads">>,
               <<"Expected a single head", Cardinality(heads), heads>>)
    ELSE LET head == CHOOSE h \in heads : TRUE IN
         IF head # ALEMBIC_REVISION
         THEN Issue("alembicrevision-mismatch", head, <<"repository", "ALEMBIC_REVISION">>,
                    <<"Repository head does not match ALEMBIC_REVISION", head, ALEMBIC_REVISION>>)
         ELSE NoIssue

\* _discover_revision_graph: topo, parents and children with the synthetic base.
_discover_revision_graph(script) ==
    LET concrete == script.revs
        roots == {r \in concrete : script.down[r] = {}}
        nodes == concrete \cup {_BASE_REVISION}
        parents == [r \in nodes |->
                      IF r = _BASE_REVISION THEN {}
                      ELSE IF r \in roots THEN {_BASE_REVISION}
                      ELSE script.down[r]]
        children == [p \in nodes |-> {c \in concrete : p \in parents[c]}]
    IN [topo |-> nodes, parents |-> parents, children |-> children]

\* The walk of _build_linear_revision_order (while True loop).
RECURSIVE LinearWalk(_, _, _, _)
LinearWalk(children, order, visited, current) ==
    LET cs == children[current] IN
    IF cs = {} THEN [order |-> order, visited |-> visited, issue |-> NoIssue]
    ELSE LET child == MinRev(cs) IN
         IF child \in visited
         THEN [order |-> <<>>, visited |-> visited,
               issue |-> Issue("multi-branch-repository", child,
                               <<"repository", "cycle", child>>,
                               <<"Cycle detected", child>>)]
         ELSE LinearWalk(children, Append(order, child), visited \cup {child}, child)

\* Mutant of _build_linear_revision_order: the comparison of the visited set
\* with the discovered revisions is forgotten.
_build_linear_revision_order_without_coverage_check(topo, parents, children) ==
    LET multiChild == {r \in DOMAIN children : Cardinality(children[r]) > 1}
        multiParent == {r \in DOMAIN parents :
                          /\ r # _BASE_REVISION
                          /\ Cardinality(parents[r] \ {_BASE_REVISION}) > 1}
        walk == LinearWalk(children, <<_BASE_REVISION>>, {_BASE_REVISION}, _BASE_REVISION)
    IN
    IF multiChild # {}
    THEN {[order |-> <<>>,
           issue |-> IF r = _BASE_REVISION
                     THEN Issue("multi-branch-repository", "repository",
                                <<"repository", "children", "base">>,
                                <<"Base revision has multiple children", children[r]>>)
                     ELSE Issue("multi-branch-repository", r,
                                <<"repository", "children", r>>,
                                <<"Revision has multiple children", children[r]>>)]
          : r \in multiChild}
    ELSE IF multiParent # {}
    THEN {[order |-> <<>>,
           issue |-> Issue("multi-branch-repository", r,
                           <<"repository", "parents", r>>,
                           <<"Revision has multiple parents", parents[r] \ {_BASE_REVISION}>>)]
          : r \in multiParent}
    ELSE IF walk.issue # NoIssue
    THEN {[order |-> <<>>, issue |-> walk.issue]}
    ELSE {[order |-> walk.order, issue |-> NoIssue]}

\* Mutant of _build_linear_revision_order: the checks for several children
\* and several parents are forgotten, only the walk decides.
_build_linear_revision_order_walk_only(topo, parents, children) ==
    LET walk == LinearWalk(children, <<_BASE_REVISION>>, {_BASE_REVISION}, _BASE_REVISION)
    IN
    IF walk.issue # NoIssue
    THEN {[order |-> <<>>, issue |-> walk.issue]}
    ELSE IF walk.visited # topo
    THEN {[order |-> <<>>,
           issue |-> Issue("multi-branch-repository", "repository",
                           <<"repository", "linear-order">>,
                           <<"Unreached revisions", topo \ walk.visited>>)]}
    ELSE {[order |-> walk.order, issue |-> NoIssue]}

\* _build_linear_revision_order: the set of results (order, issue) it can
\* return; which offending revision is reported first depends on the
\* iteration order of the dictionaries.
_build_linear_revision_order(topo, parents, children) ==
    LET multiChild == {r \in DOMAIN children : Cardinality(children[r]) > 1}
        multiParent == {r \in DOMAIN parents :
                          /\ r # _BASE_REVISION
                          /\ Cardinality(parents[r] \ {_BASE_REVISION}) > 1}
        walk == LinearWalk(children, <<_BASE_REVISION>>, {_BASE_REVISION}, _BASE_REVISION)
    IN
    IF multiChild # {}
    THEN {[order |-> <<>>,
           issue |-> IF r = _BASE_REVISION
                     THEN Issue("multi-branch-repository", "repository",
                                <<"repository", "children", "base">>,
                                <<"Base revision has multiple children", children[r]>>)
                     ELSE Issue("multi-branch-repository", r,
                                <<"repository", "children", r>>,
                                <<"Revision has multiple children", children[r]>>)]
          : r \in multiChild}
    ELSE IF multiParent # {}
    THEN {[order |-> <<>>,
           issue |-> Issue("multi-branch-repository", r,
                           <<"repository", "parents", r>>,
                           <<"Revision has multiple parents", parents[r] \ {_BASE_REVISION}>>)]
          : r \in multiParent}
    ELSE IF walk.issue # NoIssue
    THEN {[order |-> <<>>, issue |-> walk.issue]}
    ELSE IF walk.visited # topo
    THEN {[order |-> <<>>,
           issue |-> Issue("multi-branch-repository", "repository",
                           <<"repository", "linear-order">>,
                           <<"Unreached revisions", topo \ walk.visited>>)]}
    ELSE {[order |-> walk.order, issue |-> NoIssue]}

\* ------------------------------------------------------ database schema
\* The columns a database can hold, in the order sorted() gives their keys
\* "<table>.<column>"; tables sort the same way.
ColumnCatalog ==
    << [key |-> "alembic_version.version_num", table |-> "alembic_version",
        name |-> "version_num", type |-> "VARCHAR(32)", nullable |-> FALSE, primary_key |-> TRUE],
       [key |-> "old.z", table |-> "old",
        name |-> "z", type |-> "INTEGER", nullable |-> TRUE, primary_key |-> FALSE],
       [key |-> "t.c1", table |-> "t",
        name |-> "c1", type |-> "VARCHAR(255)", nullable |-> TRUE, primary_key |-> FALSE],
       [key |-> "t.c2", table |-> "t",
        name |-> "c2", type |-> "VARCHAR(255)", nullable |-> TRUE, primary_key |-> FALSE],
       [key |-> "t.c3", table |-> "t",
        name |-> "c3", type |-> "VARCHAR(255)", nullable |-> TRUE, primary_key |-> FALSE],
       [key |-> "t.c4", table |-> "t",
        name |-> "c4", type |-> "VARCHAR(255)", nullable |-> TRUE, primary_key |-> FALSE],
       [key |-> "t.c5", table |-> "t",
        name |-> "c5", type |-> "VARCHAR(255)", nullable |-> TRUE, primary_key |-> FALSE],
       [key |-> "t.x", table |-> "t",
        name |-> "x", type |-> "INTEGER", nullable |-> TRUE, primary_key |-> FALSE] >>

TableOrder == <<"alembic_version", "old", "t">>

VersionKey == "alembic_version.version_num"

LeftoverKey == "old.z"

ExtraKey == "t.x"

\* The column that the upgrade of revision r adds.
ColOf(r) == ColumnCatalog[RevIndex(r) + 2].key

\* ------------------------------------------------- schema_fingerprint
\* hashlib.sha256(blob).hexdigest(): a deterministic, collision-free function
\* of the text.
sha256_hexdigest(text) == <<"sha256", text>>

\* The "  COL ..." line of one column.
ColumnLine(c) ==
    <<"  COL", c.name, c.type, IF c.nullable THEN "NULL" ELSE "NOTNULL",
      "DEF=None", IF c.primary_key THEN "PKEY=Y" ELSE "PKEY=N">>

\* The token tuple of one column (no unique constraint, foreign key or index).
ColumnToken(c) ==
    <<c.type, IF c.nullable THEN "NULL" ELSE "NOTNULL", "__NO_DEFAULT__",
      IF c.primary_key THEN "PK" ELSE "-", "-", "-">>

\* The lines schema_fingerprint emits for one reflected table.
TableParts(table, cols) ==
    LET columns == SelectSeq(ColumnCatalog, LAMBDA c : c.table = table /\ c.key \in cols)
        pk == SelectSeq(columns, LAMBDA c : c.primary_key)
    IN IF Len(columns) = 0 THEN <<>>
       ELSE <<(<<"TABLE", "", table>>)>>
            \o [i \in 1..Len(columns) |-> ColumnLine(columns[i])]
            \o (IF Len(pk) = 0 THEN <<>>
                ELSE << <<"  PK">> \o [i \in 1..Len(pk) |-> pk[i].name] >>)

RECURSIVE SchemaParts(_, _)
SchemaParts(i, cols) ==
    IF i > Len(TableOrder) THEN <<>>
    ELSE TableParts(TableOrder[i], cols) \o SchemaParts(i + 1, cols)

\* schema_fingerprint over the reflected columns: digest, text and token map.
schema_fingerprint(cols) ==
    LET text == SchemaParts(1, cols) IN
    [digest |-> sha256_hexdigest(text),
     text |-> text,
     tokens |-> [k \in cols |->
                   ColumnToken(CHOOSE c \in {ColumnCatalog[i] : i \in 1..Len(ColumnCatalog)}
                                 : c.key = k)]]

NoSnapshot == [digest |-> None, text |-> None, tokens |-> <<>>]

\* _unified_diff: the removed and the added lines, or the placeholder.
_unified_diff(before_text, after_text) ==
    LET removed == SelectSeq(before_text,
                             LAMBDA l : \A j \in 1..Len(after_text) : after_text[j] # l)
        added == SelectSeq(after_text,
                           LAMBDA l : \A j \in 1..Len(before_text) : before_text[j] # l)
    IN IF Len(removed) = 0 /\ Len(added) = 0
       THEN <<"(no textual diff available)">>
       ELSE <<"diff", removed, added>>

\* Every key a token map can have, in the order of Python's sorted().
SortedTokenKeys ==
    <<"alembic_version.version_num", "old.z", "t.a", "t.b", "t.c1", "t.c2", "t.c3", "t.c4",
      "t.c5", "t.index.ix1", "t.index.ix2", "t.index.ix3", "t.x", "u.id">>

TokenGet(tokens, key) == IF key \in DOMAIN tokens THEN tokens[key] ELSE None

\* _first_token_mismatch walking the keys of before alone.
_first_token_mismatch_over_before_keys(before, after) ==
    LET keys == SelectSeq(SortedTokenKeys, LAMBDA k : k \in DOMAIN before)
        differing == SelectSeq(keys, LAMBDA k : TokenGet(before, k) # TokenGet(after, k))
    IN IF Len(differing) = 0 THEN None
       ELSE <<differing[1], TokenGet(before, differing[1]), TokenGet(after, differing[1])>>

\* _first_token_mismatch: <<key, before, after>> of the first differing key
\* in sorted order, or None.
_first_token_mismatch(before, after) ==
    LET keys == SelectSeq(SortedTokenKeys,
                          LAMBDA k : k \in (DOMAIN before) \cup (DOMAIN after))
        differing == SelectSeq(keys, LAMBDA k : TokenGet(before, k) # TokenGet(after, k))
    IN IF Len(differing) = 0 THEN None
       ELSE <<differing[1], TokenGet(before, differing[1]), TokenGet(after, differing[1])>>

\* -------------------------------------------------- migration executor
\* The live database: the columns present (the bookkeeping table is the
\* column VersionKey), the rows of the bookkeeping table, and the residue a
\* downgrade leaves outside the fingerprint (row data).
EmptyDb == [cols |-> {}, version |-> {}, residue |-> 0]

DirtyDb == [cols |-> {LeftoverKey, VersionKey}, version |-> {RevNames[1]}, residue |-> 0]

BrokenKinds == {"none", "leaky_downgrade", "state_dependent_upgrade"}

\* What the run meets on the database side: whether the bookkeeping table
\* lives in a reflected schema, which revision (if any) is not an exact
\* inverse pair, and the columns the declarative models describe.
Environments(revs) ==
    [vt_reflected : BOOLEAN,
     broken_rev : revs,
     broken_kind : BrokenKinds,
     models : {{ColOf(r) : r \in revs}, {ColOf(r) : r \in revs} \cup {ExtraKey}}]

NoEnvironment ==
    [vt_reflected |-> FALSE, broken_rev |-> _BASE_REVISION, broken_kind |-> "none", models |-> {}]

\* The upgrade() of one revision script.
upgrade_one(db, r, env) ==
    [cols |-> db.cols \cup {ColOf(r)}
              \cup (IF /\ env.broken_rev = r
                       /\ env.broken_kind = "state_dependent_upgrade"
                       /\ db.residue >= 2
                    THEN {ExtraKey} ELSE {}),
     version |-> {r},
     residue |-> db.residue]

\* The downgrade() of one revision script; parent is the revision below it.
downgrade_one(db, r, parent, env) ==
    [cols |-> IF env.broken_rev = r /\ env.broken_kind = "leaky_downgrade"
              THEN db.cols
              ELSE db.cols \ {ColOf(r)},
     version |-> IF parent = _BASE_REVISION THEN {} ELSE {parent},
     residue |-> IF env.broken_rev = r /\ env.broken_kind = "state_dependent_upgrade"
                 THEN (IF db.residue < 2 THEN db.residue + 1 ELSE db.residue)
                 ELSE db.residue]

\* Position in the linear order of the revision the database is at.
DbPosition(db, order) ==
    IF db.version = {} THEN 1
    ELSE CHOOSE i \in 1..Len(order) : order[i] \in db.version

TargetPosition(order, rev) ==
    IF rev = "head" THEN Len(order)
    ELSE IF rev = "base" \/ rev = _BASE_REVISION THEN 1
    ELSE CHOOSE i \in 1..Len(order) : order[i] = rev

RECURSIVE RunUpgrades(_, _, _, _, _)
RunUpgrades(db, order, env, i, target) ==
    IF i > target THEN db
    ELSE RunUpgrades(upgrade_one(db, order[i], env), order, env, i + 1, target)

RECURSIVE RunDowngrades(_, _, _, _, _)
RunDowngrades(db, order, env, i, target) ==
    IF i <= target THEN db
    ELSE RunDowngrades(downgrade_one(db, order[i], order[i - 1], env), order, env, i - 1, target)

\* _alembic_upgrade: alembic creates the bookkeeping table when it is absent
\* and runs the upgrade of every revision between the database and rev.
_alembic_upgrade(db, order, env, rev) ==
    LET prepared == [db EXCEPT !.cols = @ \cup {VersionKey}] IN
    RunUpgrades(prepared, order, env, DbPosition(db, order) + 1, TargetPosition(order, rev))

\* _alembic_downgrade: runs the downgrade of every revision above rev; the
\* bookkeeping table stays (empty at base).
_alembic_downgrade(db, order, env, rev) ==
    LET prepared == [db EXCEPT !.cols = @ \cup {VersionKey}] IN
    RunDowngrades(prepared, order, env, DbPosition(db, order), TargetPosition(order, rev))

\* _drop_everything: every table, the bookkeeping table included, is dropped.
_drop_everything(db) == EmptyDb

\* _reset_db_to_revision(revision=_BASE_REVISION)
_reset_db_to_revision(db) == _drop_everything(db)

\* reflect_metadata: the tables of the reflected schemas.
reflect_metadata(db, env) ==
    IF env.vt_reflected THEN db.cols ELSE db.cols \ {VersionKey}

\* _database_revision_heads: the rows of the bookkeeping table Alembic
\* maintains.
_database_revision_heads(db) == db.version

\* What _database_revision_heads(engine, version_table_schema) can return: the
\* rows of the table Alembic maintains when version_table_schema names the
\* schema the migration environment writes to, and otherwise the rows of the
\* table of another schema (absent or empty, stale, or holding two rows).
VersionTableReads(db, ALEMBIC_REVISION) ==
    LET other == MinRev(RevUniverse \ {ALEMBIC_REVISION}) IN
    {_database_revision_heads(db), {}, {other}, {ALEMBIC_REVISION, other}}

\* _autogen_diff_is_empty: the operations turning the database into the models
\* (the bookkeeping table is not compared).
_autogen_diff_is_empty(db, models) ==
    LET live == db.cols \ {VersionKey}
        ops == {<<"add_column", k>> : k \in models \ live}
               \cup {<<"remove_column", k>> : k \in live \ models}
    IN [ok |-> ops = {}, diff_text |-> ops]

\* ------------------------------------------------------- is_old_db flag
_is_base_revision(revision) == revision = _BASE_REVISION

_display_revision(revision) == IF _is_base_revision(revision) THEN "base" ELSE revision

_downgrade_target(revision) == IF _is_base_revision(revision) THEN "base" ELSE revision

\* _normalize_revision_for_flag: None for the base, in either spelling.
_normalize_revision_for_flag(revision) ==
    IF revision = _BASE_REVISION \/ revision = "base" THEN "None" ELSE revision

\* Mutant of _expected_is_old_db: the base case is forgotten.
_expected_is_old_db_without_base_case(flag_revision, ALEMBIC_REVISION) ==
    flag_revision # ALEMBIC_REVISION

\* _expected_is_old_db
_expected_is_old_db(flag_revision, ALEMBIC_REVISION) ==
    IF flag_revision = "None" THEN FALSE ELSE flag_revision # ALEMBIC_REVISION

\* _check_is_old_db_state, given the value the probe returned.
_check_is_old_db_state(expected_revision, display_revision, stage_label, ALEMBIC_REVISION, actual_value) ==
    LET expected_value == _expected_is_old_db(expected_revision, ALEMBIC_REVISION) IN
    IF actual_value # expected_value
    THEN Issue("is-old-db", display_revision, <<stage_label>>,
               <<"is_old_db() returned", actual_value, expected_value>>)
    ELSE NoIssue

\* ------------------------------------------------------------- state
VARIABLES
    script,            \* the repository (input)
    code_head,         \* alembicrevision.ALEMBIC_REVISION (input)
    has_callback,      \* whether issue_callback is supplied (input)
    db,                \* the live database
    env,               \* the database-side environment of the run
    pc,                \* position in validate_history
    issues,            \* validate_history: issues (the returned list when pc = "done")
    streamed,          \* issues delivered to issue_callback, in order
    trace,             \* calls made so far, in order
    linear_order,      \* validate_history: linear_order
    snapshots,         \* validate_history: snapshots
    current_revision,  \* validate_history: current_revision
    child_index,       \* position in linear_order of the edge's child
    edge_issues,       \* _check_linear_revision_edge: issues
    child_snapshot,    \* _check_linear_revision_edge: child_snapshot
    prepared_snapshot, \* _verify_roundtrip: prepared_snapshot
    upgrade_then_downgrade, \* _verify_roundtrip: direction of the round trip
    state_issue,       \* _verify_roundtrip: state_issue
    report_all_drift,  \* tools/check_alembic_history.py: --report-all-drift
    skip_roundtrips,   \* tools/check_alembic_history.py: --skip-roundtrips
    report_json,       \* tools/check_alembic_history.py: --report-json
    topo,              \* validate_alembic_history: topo
    topo_index,        \* validate_alembic_history: position of r in topo
    f_r,               \* validate_alembic_history: f_r
    validation,        \* how the call of validate_alembic_history ended
    main_result,       \* how main ended
    report,            \* the JSON report file
    structure,         \* the structural schema of a database that is fingerprinted
    reflections,       \* two reflections (MetaData) of that schema
    fingerprints,      \* the SchemaSnapshot of each reflection
    first_mismatch,    \* how the call of _first_token_mismatch on the two snapshots ended
    revision_graph,    \* _build_linear_revision_order: topo, parents, children
    build_order,       \* _build_linear_revision_order: order
    build_visited,     \* _build_linear_revision_order: visited
    build_current,     \* _build_linear_revision_order: current
    build_result,      \* how the call of _build_linear_revision_order ended
    dialect,           \* the dialect name of the connection or migration context
    server,            \* the database server the DDL statements run against
    statements,        \* the statements sent to the database, in order
    ddl_call           \* the calls of DDL helpers and migrations made so far

\* The state of a run of tools/check_alembic_history.py; a run of the tool
\* also uses script, db, env, pc, issues and trace.
cli_frame == <<report_all_drift, skip_roundtrips, report_json, topo, topo_index, f_r,
               validation, main_result, report>>

\* The state of the fingerprinting of two reflections of one schema.
fingerprint_frame == <<structure, reflections, fingerprints, first_mismatch>>

\* The state of a call of _build_linear_revision_order taken step by step.
build_frame == <<revision_graph, build_order, build_visited, build_current, build_result>>

\* The state of the DDL helpers, of the migrations and of _drop_everything.
ddl_frame == <<dialect, server, statements, ddl_call>>

vars == <<script, code_head, has_callback, db, env, pc, issues, streamed, trace,
          linear_order, snapshots, current_revision, child_index, edge_issues,
          child_snapshot, prepared_snapshot, upgrade_then_downgrade, state_issue,
          cli_frame, fingerprint_frame, build_frame, ddl_frame>>

inputs == <<script, code_head, has_callback>>

edge_frame == <<edge_issues, child_snapshot>>

roundtrip_frame == <<prepared_snapshot, upgrade_then_downgrade, state_issue>>

walk_frame == <<linear_order, snapshots, current_revision, child_index>>

\* issue_callback(issue), when a callback is supplied.
\* Mutant of issue_callback: the issue is delivered twice.
issue_callback_twice(log, issue) == IF has_callback THEN log \o <<issue, issue>> ELSE log

issue_callback(log, issue) == IF has_callback THEN Append(log, issue) ELSE log

child_revision == linear_order[child_index]

parent_revision == current_revision

\* A call that has not been made, and the report file that was not written.
NotCalled == [outcome |-> "not called"]

NoReport == [written |-> FALSE]

\* No revision graph has been discovered.
NoGraph == [topo |-> {}, parents |-> <<>>, children |-> <<>>]

\* No database is connected and no statement has been sent.
NoDatabase == [tables |-> <<>>]

NoDdl ==
    /\ dialect = "None"
    /\ server = NoDatabase
    /\ statements = <<>>
    /\ ddl_call = <<>>

\* No schema is being fingerprinted.
NoStructure == [primary_key |-> {}, indexes |-> {}, uniques |-> {}, checks |-> {},
                foreign_keys |-> {}]

Init ==
    /\ script \in Scripts
    /\ code_head \in RevUniverse
    /\ has_callback \in BOOLEAN
    /\ db \in {EmptyDb, DirtyDb}
    /\ env = NoEnvironment
    /\ pc = "assert_single_head"
    /\ issues = <<>>
    /\ streamed = <<>>
    /\ trace = <<>>
    /\ linear_order = <<>>
    /\ snapshots = <<>>
    /\ current_revision = _BASE_REVISION
    /\ child_index = 1
    /\ edge_issues = <<>>
    /\ child_snapshot = NoSnapshot
    /\ prepared_snapshot = NoSnapshot
    /\ upgrade_then_downgrade = TRUE
    /\ state_issue = NoIssue
    /\ report_all_drift = FALSE
    /\ skip_roundtrips = FALSE
    /\ report_json = "None"
    /\ topo = <<>>
    /\ topo_index = 1
    /\ f_r = None
    /\ validation = NotCalled
    /\ main_result = NotCalled
    /\ report = NoReport
    /\ structure = NoStructure
    /\ reflections = <<>>
    /\ fingerprints = <<>>
    /\ first_mismatch = NotCalled
    /\ revision_graph = NoGraph
    /\ build_order = <<>>
    /\ build_visited = {}
    /\ build_current = _BASE_REVISION
    /\ build_result = NotCalled
    /\ NoDdl

\* Mutant of AssertSingleHead: the run goes on after the single-head issue.
AssertSingleHead_without_return ==
    /\ pc = "assert_single_head"
    /\ LET single_head_issue == _assert_single_head(script, code_head) IN
       IF single_head_issue # NoIssue
       THEN /\ streamed' = issue_callback(streamed, single_head_issue)
            /\ issues' = Append(issues, single_head_issue)
            /\ pc' = "build_order"
       ELSE /\ pc' = "build_order"
            /\ UNCHANGED <<issues, streamed>>
    /\ UNCHANGED <<ddl_frame, build_frame, fingerprint_frame, cli_frame, inputs, db, env, trace, walk_frame, edge_frame, roundtrip_frame>>

\* validate_history, lines 1058-1066: the single-head check.
AssertSingleHead ==
    /\ pc = "assert_single_head"
    /\ LET single_head_issue == _assert_single_head(script, code_head) IN
       IF single_head_issue # NoIssue
       THEN /\ streamed' = issue_callback(streamed, single_head_issue)
            /\ issues' = Append(issues, single_head_issue)
            /\ pc' = "done"
       ELSE /\ pc' = "build_order"
            /\ UNCHANGED <<issues, streamed>>
    /\ UNCHANGED <<ddl_frame, build_frame, fingerprint_frame, cli_frame, inputs, db, env, trace, walk_frame, edge_frame, roundtrip_frame>>

\* validate_history, lines 1068-1082: graph discovery and the linear order.
BuildLinearOrder ==
    /\ pc = "build_order"
    /\ LET graph == _discover_revision_graph(script) IN
       \E result \in _build_linear_revision_order(graph.topo, graph.parents, graph.children) :
          IF result.issue # NoIssue
          THEN /\ streamed' = issue_callback(streamed, result.issue)
               /\ issues' = Append(issues, result.issue)
               /\ pc' = "done"
               /\ UNCHANGED linear_order
          ELSE /\ linear_order' = result.order
               /\ pc' = "reset"
               /\ UNCHANGED <<issues, streamed>>
    /\ UNCHANGED <<ddl_frame, build_frame, fingerprint_frame, cli_frame, inputs, db, env, trace, snapshots, current_revision, child_index,
                   edge_frame, roundtrip_frame>>

\* validate_history, lines 1084-1091: hard reset and the base snapshot.
ResetDatabase ==
    /\ pc = "reset"
    /\ env' \in Environments(script.revs)
    /\ db' = _reset_db_to_revision(db)
    /\ LET base_snapshot == schema_fingerprint(reflect_metadata(db', env')) IN
       /\ snapshots' = [r \in {_BASE_REVISION} |-> base_snapshot]
       /\ trace' = trace \o << <<"reset">>, <<"snapshot", base_snapshot>> >>
    /\ pc' = "check_base"
    /\ UNCHANGED <<ddl_frame, build_frame, fingerprint_frame, cli_frame, inputs, issues, streamed, linear_order, current_revision, child_index,
                   edge_frame, roundtrip_frame>>

\* validate_history, lines 1093-1108: the flag at base.
CheckBase ==
    /\ pc = "check_base"
    /\ \E actual_value \in BOOLEAN :
          LET flag_revision == _normalize_revision_for_flag(_BASE_REVISION)
              issue == _check_is_old_db_state(flag_revision, "base", <<"prepare", "base">>,
                                              code_head, actual_value)
          IN /\ trace' = Append(trace, <<"flag", _BASE_REVISION,
                                         _expected_is_old_db(flag_revision, code_head),
                                         actual_value>>)
             /\ IF issue # NoIssue
                THEN /\ streamed' = issue_callback(streamed, issue)
                     /\ issues' = Append(issues, issue)
                     /\ pc' = "done"
                ELSE /\ pc' = "edge"
                     /\ UNCHANGED <<issues, streamed>>
    /\ current_revision' = _BASE_REVISION
    /\ child_index' = 2
    /\ UNCHANGED <<ddl_frame, build_frame, fingerprint_frame, cli_frame, inputs, db, env, linear_order, snapshots, edge_frame, roundtrip_frame>>

\* ------------------------------------------- _check_linear_revision_edge
display_parent == _display_revision(parent_revision)

display_child == _display_revision(child_revision)

\* path and reverse_path of _check_linear_revision_edge.
RoundtripPath(forward) ==
    IF forward THEN <<display_parent, display_child, display_parent>>
    ELSE <<display_child, display_parent, display_child>>

\* Mutant of EdgeBegin: every edge is compared with the snapshot of the base.
EdgeBegin_with_base_snapshot ==
    /\ pc = "edge"
    /\ IF child_index > Len(linear_order)
       THEN /\ pc' = "head_upgrade"
            /\ UNCHANGED <<edge_frame, roundtrip_frame>>
       ELSE /\ edge_issues' = <<>>
            /\ prepared_snapshot' = snapshots[_BASE_REVISION]
            /\ upgrade_then_downgrade' = TRUE
            /\ state_issue' = NoIssue
            /\ pc' = "vr_first"
            /\ UNCHANGED child_snapshot
    /\ UNCHANGED <<ddl_frame, build_frame, fingerprint_frame, cli_frame, inputs, db, env, issues, streamed, trace, walk_frame>>

\* validate_history, lines 1110-1128, and _check_linear_revision_edge, lines
\* 651-697: the next edge of the linear order, or the end of the walk.
EdgeBegin ==
    /\ pc = "edge"
    /\ IF child_index > Len(linear_order)
       THEN /\ pc' = "head_upgrade"
            /\ UNCHANGED <<edge_frame, roundtrip_frame>>
       ELSE /\ edge_issues' = <<>>
            /\ prepared_snapshot' = snapshots[current_revision]
            /\ upgrade_then_downgrade' = TRUE
            /\ state_issue' = NoIssue
            /\ pc' = "vr_first"
            /\ UNCHANGED child_snapshot
    /\ UNCHANGED <<ddl_frame, build_frame, fingerprint_frame, cli_frame, inputs, db, env, issues, streamed, trace, walk_frame>>

\* The Alembic command _verify_roundtrip runs first (forward) or second.
RoundtripCommand(upgrade) ==
    IF upgrade
    THEN /\ db' = _alembic_upgrade(db, linear_order, env, child_revision)
         /\ trace' = Append(trace, <<"upgrade", child_revision>>)
    ELSE /\ db' = _alembic_downgrade(db, linear_order, env, _downgrade_target(parent_revision))
         /\ trace' = Append(trace, <<"downgrade", _downgrade_target(parent_revision)>>)

\* state_issue = state_issue or state_checker(revision, action)
RoundtripStateCheck(revision, action) ==
    IF state_issue # NoIssue
    THEN UNCHANGED <<state_issue, trace>>
    ELSE \E actual_value \in BOOLEAN :
            LET flag_revision == _normalize_revision_for_flag(revision)
                label == RoundtripPath(upgrade_then_downgrade)
                         \o <<action, "at", _display_revision(revision)>>
            IN /\ state_issue' = _check_is_old_db_state(flag_revision, _display_revision(revision),
                                                        label, code_head, actual_value)
               /\ trace' = Append(trace, <<"flag", revision,
                                           _expected_is_old_db(flag_revision, code_head),
                                           actual_value>>)

\* _verify_roundtrip, lines 413 / 420.
VerifyFirstCommand ==
    /\ pc = "vr_first"
    /\ RoundtripCommand(upgrade_then_downgrade)
    /\ pc' = "vr_check1"
    /\ UNCHANGED <<ddl_frame, build_frame, fingerprint_frame, cli_frame, inputs, env, issues, streamed, walk_frame, edge_frame, roundtrip_frame>>

\* _verify_roundtrip, lines 414-415 / 421-422.
VerifyFirstCheck ==
    /\ pc = "vr_check1"
    /\ IF upgrade_then_downgrade
       THEN RoundtripStateCheck(child_revision, "upgrade")
       ELSE RoundtripStateCheck(parent_revision, "downgrade")
    /\ pc' = "vr_second"
    /\ UNCHANGED <<ddl_frame, build_frame, fingerprint_frame, cli_frame, inputs, db, env, issues, streamed, walk_frame, edge_frame,
                   prepared_snapshot, upgrade_then_downgrade>>

\* _verify_roundtrip, lines 416 / 423.
VerifySecondCommand ==
    /\ pc = "vr_second"
    /\ RoundtripCommand(~upgrade_then_downgrade)
    /\ pc' = "vr_check2"
    /\ UNCHANGED <<ddl_frame, build_frame, fingerprint_frame, cli_frame, inputs, env, issues, streamed, walk_frame, edge_frame, roundtrip_frame>>

\* _verify_roundtrip, lines 417-418 / 424-425.
VerifySecondCheck ==
    /\ pc = "vr_check2"
    /\ IF upgrade_then_downgrade
       THEN RoundtripStateCheck(parent_revision, "downgrade")
       ELSE RoundtripStateCheck(child_revision, "upgrade")
    /\ pc' = "vr_finish"
    /\ UNCHANGED <<ddl_frame, build_frame, fingerprint_frame, cli_frame, inputs, db, env, issues, streamed, walk_frame, edge_frame,
                   prepared_snapshot, upgrade_then_downgrade>>

\* The Issue _verify_roundtrip builds on a digest mismatch (lines 432-455).
RoundtripIssue(path, prepared, snap_back) ==
    LET diff_text == _unified_diff(prepared.text, snap_back.text)
        token_diff == _first_token_mismatch(prepared.tokens, snap_back.tokens)
    IN [kind |-> "roundtrip",
        at_revision |-> path[1],
        path |-> path,
        detail |-> <<"Schema fingerprint differs from original", path, prepared.digest,
                     snap_back.digest>>
                   \o (IF token_diff # None THEN << <<"first mismatch", token_diff>> >> ELSE <<>>)
                   \o <<diff_text>>,
        fingerprint_before |-> prepared.text,
        fingerprint_after |-> snap_back.text,
        fingerprint_diff |-> diff_text]

\* The return of _check_linear_revision_edge with a non-empty issue list, and
\* validate_history lines 1129-1131: the first edge issue is returned.
ReturnEdgeIssues(list) ==
    /\ edge_issues' = list
    /\ issues' = Append(issues, list[1])
    /\ pc' = "done"
    /\ UNCHANGED <<walk_frame, child_snapshot>>

\* _verify_roundtrip, lines 427-462, and what its callers do with the result
\* (_check_linear_revision_edge lines 698-703 / 766-773, validate_history
\* lines 1129-1134).
VerifyFinish ==
    /\ pc = "vr_finish"
    /\ IF state_issue # NoIssue
       THEN /\ streamed' = issue_callback(streamed, state_issue)
            /\ ReturnEdgeIssues(Append(edge_issues, state_issue))
            /\ UNCHANGED trace
       ELSE LET snap_back == schema_fingerprint(reflect_metadata(db, env))
                issue == RoundtripIssue(RoundtripPath(upgrade_then_downgrade),
                                        prepared_snapshot, snap_back)
            IN /\ trace' = trace \o << <<"snapshot", snap_back>>,
                                       <<"compare", prepared_snapshot, snap_back>> >>
               /\ IF snap_back.digest # prepared_snapshot.digest
                  THEN /\ streamed' = issue_callback(streamed, issue)
                       /\ ReturnEdgeIssues(Append(edge_issues, issue))
                  ELSE IF upgrade_then_downgrade
                  THEN /\ pc' = "prepare_upgrade"
                       /\ UNCHANGED <<issues, streamed, walk_frame, edge_frame>>
                  ELSE IF edge_issues # <<>>
                  THEN /\ ReturnEdgeIssues(edge_issues)
                       /\ UNCHANGED streamed
                  ELSE /\ snapshots' = [r \in (DOMAIN snapshots) \cup {child_revision} |->
                                          IF r = child_revision THEN child_snapshot
                                          ELSE snapshots[r]]
                       /\ current_revision' = child_revision
                       /\ child_index' = child_index + 1
                       /\ pc' = "edge"
                       /\ UNCHANGED <<issues, streamed, linear_order, edge_frame>>
    /\ UNCHANGED <<ddl_frame, build_frame, fingerprint_frame, cli_frame, inputs, db, env, roundtrip_frame>>

\* _check_linear_revision_edge, lines 705-706: the upgrade that stays.
PrepareUpgrade ==
    /\ pc = "prepare_upgrade"
    /\ db' = _alembic_upgrade(db, linear_order, env, child_revision)
    /\ trace' = Append(trace, <<"upgrade", child_revision>>)
    /\ pc' = "prepare_check"
    /\ UNCHANGED <<ddl_frame, build_frame, fingerprint_frame, cli_frame, inputs, env, issues, streamed, walk_frame, edge_frame, roundtrip_frame>>

\* _check_linear_revision_edge, lines 708-764: the flag at the child, the
\* child snapshot and the set-up of the reverse round trip.
PrepareCheck ==
    /\ pc = "prepare_check"
    /\ \E actual_value \in BOOLEAN :
          LET flag_revision == _normalize_revision_for_flag(child_revision)
              issue == _check_is_old_db_state(flag_revision, display_child,
                                              <<"prepare", display_child>>,
                                              code_head, actual_value)
              snapshot == schema_fingerprint(reflect_metadata(db, env))
          IN /\ IF issue # NoIssue
                THEN /\ edge_issues' = Append(edge_issues, issue)
                     /\ streamed' = issue_callback(streamed, issue)
                ELSE UNCHANGED <<edge_issues, streamed>>
             /\ child_snapshot' = snapshot
             /\ prepared_snapshot' = snapshot
             /\ trace' = trace \o << <<"flag", child_revision,
                                       _expected_is_old_db(flag_revision, code_head),
                                       actual_value>>,
                                     <<"snapshot", snapshot>> >>
    /\ upgrade_then_downgrade' = FALSE
    /\ state_issue' = NoIssue
    /\ pc' = "vr_first"
    /\ UNCHANGED <<ddl_frame, build_frame, fingerprint_frame, cli_frame, inputs, db, env, issues, walk_frame>>

\* ------------------------------------------------------------ head stage
\* Mutant of verify_revision_markers_at_head: the rows of the bookkeeping
\* table are not compared.
verify_revision_markers_at_head_without_version_table(repo, db_heads, ALEMBIC_REVISION) ==
    LET repo_heads == get_heads(repo)
    IN IF repo_heads = {} THEN NoIssue
       ELSE IF Cardinality(repo_heads) # 1
       THEN Issue("revision-marker-mismatch", "head", <<"head", "repository-heads">>,
                  <<"Alembic repository reports multiple heads", repo_heads>>)
       ELSE IF (CHOOSE h \in repo_heads : TRUE) # ALEMBIC_REVISION
       THEN Issue("revision-marker-mismatch", "head", <<"head", "alembicrevision">>,
                  <<"Repository head does not match ALEMBIC_REVISION", repo_heads,
                    ALEMBIC_REVISION>>)
       ELSE NoIssue

\* verify_revision_markers_at_head
verify_revision_markers_at_head(repo, db_heads, ALEMBIC_REVISION) ==
    LET repo_heads == get_heads(repo)
    IN IF repo_heads = {} THEN NoIssue
       ELSE IF Cardinality(repo_heads) # 1
       THEN Issue("revision-marker-mismatch", "head", <<"head", "repository-heads">>,
                  <<"Alembic repository reports multiple heads", repo_heads>>)
       ELSE IF (CHOOSE h \in repo_heads : TRUE) # ALEMBIC_REVISION
       THEN Issue("revision-marker-mismatch", "head", <<"head", "alembicrevision">>,
                  <<"Repository head does not match ALEMBIC_REVISION", repo_heads,
                    ALEMBIC_REVISION>>)
       ELSE IF db_heads # {ALEMBIC_REVISION}
       THEN Issue("revision-marker-mismatch", "head", <<"head", "version-table">>,
                  <<"alembic_version must contain exactly the code head", ALEMBIC_REVISION,
                    db_heads>>)
       ELSE NoIssue

\* validate_history, lines 1136-1137: the final upgrade to head.
HeadUpgrade ==
    /\ pc = "head_upgrade"
    /\ db' = _alembic_upgrade(db, linear_order, env, "head")
    /\ trace' = Append(trace, <<"upgrade", "head">>)
    /\ pc' = "verify_markers"
    /\ UNCHANGED <<ddl_frame, build_frame, fingerprint_frame, cli_frame, inputs, env, issues, streamed, walk_frame, edge_frame, roundtrip_frame>>

\* validate_history, lines 1139-1151: the revision markers at head.
VerifyMarkers ==
    /\ pc = "verify_markers"
    /\ \E db_heads \in VersionTableReads(db, code_head) :
          LET marker_issue == verify_revision_markers_at_head(script, db_heads, code_head) IN
          /\ IF marker_issue # NoIssue
             THEN /\ streamed' = issue_callback(streamed, marker_issue)
                  /\ issues' = Append(issues, marker_issue)
                  /\ pc' = "done"
             ELSE /\ pc' = "compare_models"
                  /\ UNCHANGED <<issues, streamed>>
          /\ trace' = Append(trace, <<"markers", db_heads>>)
    /\ UNCHANGED <<ddl_frame, build_frame, fingerprint_frame, cli_frame, inputs, db, env, walk_frame, edge_frame, roundtrip_frame>>

\* Mutant of CompareModels: operations are computed but no issue is reported.
CompareModels_without_drift_issue ==
    /\ pc = "compare_models"
    /\ trace' = Append(trace, <<"autogen">>)
    /\ pc' = "done"
    /\ UNCHANGED <<ddl_frame, build_frame, fingerprint_frame, cli_frame, inputs, db, env, issues, streamed, walk_frame, edge_frame, roundtrip_frame>>

\* validate_history, lines 1153-1174: the comparison with the models.
CompareModels ==
    /\ pc = "compare_models"
    /\ LET result == _autogen_diff_is_empty(db, env.models)
           display_head == IF Len(linear_order) > 0
                           THEN _display_revision(linear_order[Len(linear_order)])
                           ELSE "base"
           issue == Issue("models-drift", display_head, <<display_head, "head">>,
                          <<"Autogenerate suggests the following upgrade operations",
                            result.diff_text>>)
       IN IF ~result.ok
          THEN /\ streamed' = issue_callback(streamed, issue)
               /\ issues' = Append(issues, issue)
          ELSE UNCHANGED <<issues, streamed>>
    /\ trace' = Append(trace, <<"autogen">>)
    /\ pc' = "done"
    /\ UNCHANGED <<ddl_frame, build_frame, fingerprint_frame, cli_frame, inputs, db, env, walk_frame, edge_frame, roundtrip_frame>>

Next ==
    \/ AssertSingleHead
    \/ BuildLinearOrder
    \/ ResetDatabase
    \/ CheckBase
    \/ EdgeBegin
    \/ VerifyFirstCommand
    \/ VerifyFirstCheck
    \/ VerifySecondCommand
    \/ VerifySecondCheck
    \/ VerifyFinish
    \/ PrepareUpgrade
    \/ PrepareCheck
    \/ HeadUpgrade
    \/ VerifyMarkers
    \/ CompareModels

Spec == Init /\ [][Next]_vars

\* ======================================= tools/check_alembic_history.py
\* The command-line validator.  Its repositories are linear chains here:
\* upgrade and downgrade are modelled along one line of revisions.
LinearScripts ==
    {s \in Scripts :
        LET graph == _discover_revision_graph(s) IN
        /\ get_heads(s) # {} \/ s.revs = {}
        /\ \E result \in _build_linear_revision_order(graph.topo, graph.parents,
                                                        graph.children) :
              result.issue = NoIssue}

\* --report-json: not given, a path that can be written, a path that cannot.
ReportTargets == {"None", "writable", "unwritable"}

\* The tool's own Issue dataclass (four fields).
tool_Issue(kind, at_revision, path, detail) ==
    [kind |-> kind, at_revision |-> at_revision, path |-> path, detail |-> detail]

\* The tool's _discover_revision_graph: topo_from_base and children.
tool_discover_revision_graph(repo) ==
    LET graph == _discover_revision_graph(repo)
        walk == LinearWalk(graph.children, <<_BASE_REVISION>>, {_BASE_REVISION},
                           _BASE_REVISION)
    IN [topo |-> Tail(walk.order),
        children |-> [r \in repo.revs |-> graph.children[r]]]

\* The tool's _schema_fingerprint: the digest of the reflected schema.
_schema_fingerprint(database, environment) ==
    schema_fingerprint(reflect_metadata(database, environment)).digest

\* The tool's _drop_everything: every reflected table and alembic_version.
tool_drop_everything(database) == EmptyDb

\* Number of positional parameters of the tool's
\* _autogen_diff_is_empty(engine, models_md).
tool_autogen_diff_is_empty_parameters == 2

\* A call of the tool's _autogen_diff_is_empty with the positional arguments
\* args: Python raises TypeError unless they fit the parameters.
tool_autogen_diff_is_empty(args) ==
    IF Len(args) # tool_autogen_diff_is_empty_parameters
    THEN [raised |-> "TypeError", ok |-> FALSE, diff_text |-> {}]
    ELSE LET result == _autogen_diff_is_empty(args[1], args[2]) IN
         [raised |-> "None", ok |-> result.ok, diff_text |-> result.diff_text]

\* The revision r of the current iteration, its child, and the line of
\* revisions the executor moves along.
tool_r == topo[topo_index]

tool_c == MinRev(tool_discover_revision_graph(script).children[tool_r])

tool_order == <<_BASE_REVISION>> \o topo

CliInit ==
    /\ script \in LinearScripts
    /\ env \in (IF script.revs = {} THEN {NoEnvironment} ELSE Environments(script.revs))
    /\ db \in {EmptyDb, DirtyDb}
    /\ report_all_drift \in BOOLEAN
    /\ skip_roundtrips \in BOOLEAN
    /\ report_json \in ReportTargets
    /\ pc = "main"
    /\ issues = <<>>
    /\ trace = <<>>
    /\ topo = <<>>
    /\ topo_index = 1
    /\ f_r = None
    /\ validation = NotCalled
    /\ main_result = NotCalled
    /\ report = NoReport
    /\ structure = NoStructure
    /\ reflections = <<>>
    /\ fingerprints = <<>>
    /\ first_mismatch = NotCalled
    /\ revision_graph = NoGraph
    /\ build_order = <<>>
    /\ build_visited = {}
    /\ build_current = _BASE_REVISION
    /\ build_result = NotCalled
    /\ NoDdl
    /\ code_head = MinRev(RevUniverse)
    /\ has_callback = FALSE
    /\ streamed = <<>>
    /\ linear_order = <<>>
    /\ snapshots = <<>>
    /\ current_revision = _BASE_REVISION
    /\ child_index = 1
    /\ edge_issues = <<>>
    /\ child_snapshot = NoSnapshot
    /\ prepared_snapshot = NoSnapshot
    /\ upgrade_then_downgrade = TRUE
    /\ state_issue = NoIssue

\* Variables of validate_history, which a run of the tool leaves alone.
library_frame == <<code_head, has_callback, streamed, linear_order, snapshots,
                   current_revision, child_index, edge_frame, roundtrip_frame>>

tool_inputs == <<script, env, report_all_drift, skip_roundtrips, report_json>>

\* validate_alembic_history returns issues.
ValidationReturns ==
    /\ validation' = [outcome |-> "returned"]
    /\ pc' = "main_finish"

\* An exception leaves validate_alembic_history.
ValidationRaises(exception) ==
    /\ validation' = [outcome |-> "raised", exception |-> exception]
    /\ trace' = Append(trace, <<"raise", exception>>)
    /\ pc' = "main_finish"

\* main, lines 407-424, and validate_alembic_history, lines 312-333.
MainBegin ==
    /\ pc = "main"
    /\ validation' = [outcome |-> "running"]
    /\ main_result' = [outcome |-> "running"]
    /\ topo' = tool_discover_revision_graph(script).topo
    /\ topo_index' = 1
    /\ pc' = "prepare"
    /\ UNCHANGED <<ddl_frame, build_frame, fingerprint_frame, tool_inputs, library_frame, db, issues, trace, f_r, report>>

\* validate_alembic_history, lines 335-343 and 404: the next revision of
\* topo is prepared, or the loop is over and the issues are returned.
ToolPrepare ==
    /\ pc = "prepare"
    /\ IF topo_index > Len(topo)
       THEN /\ ValidationReturns
            /\ UNCHANGED <<db, trace, f_r>>
       ELSE \E executor_raises \in BOOLEAN :
               IF executor_raises
               THEN /\ ValidationRaises("executor")
                    /\ UNCHANGED <<db, f_r>>
               ELSE /\ db' = _alembic_upgrade(tool_drop_everything(db), tool_order, env, tool_r)
                    /\ f_r' = _schema_fingerprint(db', env)
                    /\ trace' = trace \o << <<"reset">>, <<"upgrade", tool_r>>,
                                            <<"fingerprint", f_r'>> >>
                    /\ pc' = IF ~skip_roundtrips
                                /\ tool_discover_revision_graph(script).children[tool_r] # {}
                             THEN "forward" ELSE "head"
                    /\ UNCHANGED validation
    /\ UNCHANGED <<ddl_frame, build_frame, fingerprint_frame, tool_inputs, library_frame, issues, topo, topo_index, main_result, report>>

\* validate_alembic_history, lines 346-364: the round trip r -> c -> r.
ToolForwardRoundtrip ==
    /\ pc = "forward"
    /\ \E executor_raises \in BOOLEAN :
          IF executor_raises
          THEN /\ ValidationRaises("executor")
               /\ UNCHANGED <<db, issues>>
          ELSE LET up == _alembic_upgrade(db, tool_order, env, tool_c)
                   back == _alembic_downgrade(up, tool_order, env, tool_r)
                   f_back == _schema_fingerprint(back, env)
                   issue == tool_Issue("roundtrip", tool_r, <<tool_r, tool_c, tool_r>>,
                                       <<"Schema fingerprint after r->c->r differs from original at r">>)
               IN /\ db' = back
                  /\ trace' = trace \o << <<"upgrade", tool_c>>, <<"downgrade", tool_r>>,
                                          <<"fingerprint", f_back>> >>
                                    \o (IF f_back # f_r THEN << <<"drift", issue>> >> ELSE <<>>)
                  /\ IF f_back # f_r
                     THEN /\ issues' = Append(issues, issue)
                          /\ IF ~report_all_drift
                             THEN ValidationReturns
                             ELSE pc' = "reverse" /\ UNCHANGED validation
                     ELSE /\ pc' = "reverse"
                          /\ UNCHANGED <<issues, validation>>
    /\ UNCHANGED <<ddl_frame, build_frame, fingerprint_frame, tool_inputs, library_frame, topo, topo_index, f_r, main_result, report>>

\* validate_alembic_history, lines 366-385: the round trip c -> r -> c from a
\* fresh database.
ToolReverseRoundtrip ==
    /\ pc = "reverse"
    /\ \E executor_raises \in BOOLEAN :
          IF executor_raises
          THEN /\ ValidationRaises("executor")
               /\ UNCHANGED <<db, issues>>
          ELSE LET at_c == _alembic_upgrade(tool_drop_everything(db), tool_order, env, tool_c)
                   f_c == _schema_fingerprint(at_c, env)
                   down == _alembic_downgrade(at_c, tool_order, env, tool_r)
                   again == _alembic_upgrade(down, tool_order, env, tool_c)
                   f_c_back == _schema_fingerprint(again, env)
                   issue == tool_Issue("roundtrip", tool_c, <<tool_c, tool_r, tool_c>>,
                                       <<"Schema fingerprint after c->r->c differs from original at c">>)
               IN /\ db' = again
                  /\ trace' = trace \o << <<"reset">>, <<"upgrade", tool_c>>,
                                          <<"fingerprint", f_c>>, <<"downgrade", tool_r>>,
                                          <<"upgrade", tool_c>>, <<"fingerprint", f_c_back>> >>
                                    \o (IF f_c_back # f_c THEN << <<"drift", issue>> >> ELSE <<>>)
                  /\ IF f_c_back # f_c
                     THEN /\ issues' = Append(issues, issue)
                          /\ IF ~report_all_drift
                             THEN ValidationReturns
                             ELSE pc' = "head" /\ UNCHANGED validation
                     ELSE /\ pc' = "head"
                          /\ UNCHANGED <<issues, validation>>
    /\ UNCHANGED <<ddl_frame, build_frame, fingerprint_frame, tool_inputs, library_frame, topo, topo_index, f_r, main_result, report>>

\* validate_alembic_history, lines 387-402: upgrade to head and the comparison
\* with the models, called with (engine, models_md, include_schemas).
ToolHeadCompare ==
    /\ pc = "head"
    /\ \E executor_raises \in BOOLEAN :
          IF executor_raises
          THEN /\ ValidationRaises("executor")
               /\ UNCHANGED <<db, issues, topo_index>>
          ELSE LET at_head == _alembic_upgrade(db, tool_order, env, "head")
                   result == tool_autogen_diff_is_empty(<<at_head, env.models, "include_schemas">>)
                   issue == tool_Issue("models-drift", tool_r, <<tool_r, "head">>,
                                       <<result.diff_text>>)
               IN /\ db' = at_head
                  /\ IF result.raised # "None"
                     THEN /\ validation' = [outcome |-> "raised", exception |-> result.raised]
                          /\ trace' = trace \o << <<"upgrade", "head">>,
                                                  <<"raise", result.raised>> >>
                          /\ pc' = "main_finish"
                          /\ UNCHANGED <<issues, topo_index>>
                     ELSE /\ trace' = trace \o << <<"upgrade", "head">>, <<"autogen", tool_r>> >>
                          /\ IF ~result.ok
                             THEN /\ issues' = Append(issues, issue)
                                  /\ IF ~report_all_drift
                                     THEN ValidationReturns /\ UNCHANGED topo_index
                                     ELSE /\ topo_index' = topo_index + 1
                                          /\ pc' = "prepare"
                                          /\ UNCHANGED validation
                             ELSE /\ topo_index' = topo_index + 1
                                  /\ pc' = "prepare"
                                  /\ UNCHANGED <<issues, validation>>
    /\ UNCHANGED <<ddl_frame, build_frame, fingerprint_frame, tool_inputs, library_frame, topo, f_r, main_result, report>>

\* Mutant of MainFinish: after an exception the issues collected so far are
\* reported like those of a completed run.
MainFinish_reporting_after_exception ==
    /\ pc = "main_finish"
    /\ IF report_json = "unwritable"
       THEN /\ main_result' = [outcome |-> "raised", exception |-> "OSError"]
            /\ UNCHANGED report
       ELSE /\ report' = IF report_json = "writable"
                         THEN [written |-> TRUE, issues_found |-> Len(issues),
                               issues |-> issues]
                         ELSE report
            /\ main_result' = [outcome |-> "returned",
                               code |-> IF issues # <<>> THEN 1 ELSE 0]
    /\ pc' = "exit"
    /\ UNCHANGED <<ddl_frame, build_frame, fingerprint_frame, tool_inputs, library_frame, db, issues, trace, topo, topo_index, f_r,
                   validation>>

\* main, lines 425-445: the exit code, and the report when one is asked for.
MainFinish ==
    /\ pc = "main_finish"
    /\ IF validation.outcome = "raised"
       THEN /\ main_result' = [outcome |-> "returned", code |-> 2]
            /\ UNCHANGED report
       ELSE IF report_json = "unwritable"
       THEN /\ main_result' = [outcome |-> "raised", exception |-> "OSError"]
            /\ UNCHANGED report
       ELSE /\ report' = IF report_json = "writable"
                         THEN [written |-> TRUE, issues_found |-> Len(issues),
                               issues |-> issues]
                         ELSE report
            /\ main_result' = [outcome |-> "returned",
                               code |-> IF issues # <<>> THEN 1 ELSE 0]
    /\ pc' = "exit"
    /\ UNCHANGED <<ddl_frame, build_frame, fingerprint_frame, tool_inputs, library_frame, db, issues, trace, topo, topo_index, f_r,
                   validation>>

CliNext ==
    \/ MainBegin
    \/ ToolPrepare
    \/ ToolForwardRoundtrip
    \/ ToolReverseRoundtrip
    \/ ToolHeadCompare
    \/ MainFinish

CliSpec == CliInit /\ [][CliNext]_vars

\* ================== schema_fingerprint over a reflected MetaData
\* schema_fingerprint(cols) above is the fingerprint of tables that hold plain
\* columns only.  Here a reflected table also has a primary key, indexes,
\* unique and check constraints and foreign keys, each enumerated in the
\* order the reflection happens to give.

\* Largest number of indexes, and of foreign keys, on the table.
MaxForeignKeys == 2

\* The strings that serve as sort keys, in Python's string order, and the
\* values of ",".join(sorted column names), in the same order.
SortedStrings ==
    <<"", "CASCADE", "N", "U", "a", "a > 0", "b", "b > 0", "gin", "id", "ix1", "ix2",
      "ix3", "ops1", "t", "u">>

StrRank(string) == CHOOSE i \in 1..Len(SortedStrings) : SortedStrings[i] = string

SortedJoins == << <<>>, <<"a">>, <<"a", "b">>, <<"b">>, <<"id">> >>

JoinRank(names) == CHOOSE i \in 1..Len(SortedJoins) : SortedJoins[i] = names

\* Comparison of two key tuples of the same length.
LexLess(x, y) ==
    \E i \in 1..Len(x) : x[i] < y[i] /\ \A j \in 1..(i - 1) : x[j] = y[j]

\* Python's sorted(items, key=...): keys[i] is the key of items[i]; the sort
\* is stable, items of equal key keep their order.
sorted(items, keys) ==
    LET n == Len(items)
        before(j, i) == LexLess(keys[j], keys[i]) \/ (keys[j] = keys[i] /\ j < i)
        place(i) == Cardinality({j \in 1..n : before(j, i)}) + 1
    IN [p \in 1..n |-> items[CHOOSE i \in 1..n : place(i) = p]]

\* sorted(columns, key=lambda col: col.name), as names.
SortedNames(names) == sorted(names, [i \in 1..Len(names) |-> <<StrRank(names[i])>>])

\* sorted() of a set of "UQ:<columns>" membership tokens.
SortedSignatures(S) ==
    LET listed == CHOOSE q \in [1..Cardinality(S) -> S] : \A x \in S : \E i \in DOMAIN q : q[i] = x
    IN sorted(listed, [i \in 1..Len(listed) |-> <<JoinRank(listed[i])>>])

\* for idx in sorted(table.indexes, key=(unique first, joined columns, name))
SortedIndexes(table) ==
    sorted(table.indexes,
           [i \in 1..Len(table.indexes) |->
              <<IF table.indexes[i].unique THEN 0 ELSE 1,
                JoinRank(SortedNames(table.indexes[i].columns)),
                StrRank(table.indexes[i].name)>>])

IndexFlag(idx) == IF idx.unique THEN "U" ELSE "N"

OpclassOf(idx, col_name) == IF col_name \in DOMAIN idx.ops THEN idx.ops[col_name] ELSE ""

\* The entry an index appends to column_index_tokens[col_name].
ColumnIndexToken(idx, col_name) ==
    <<idx.name, IndexFlag(idx), idx.method, OpclassOf(idx, col_name), idx.where>>

\* index_tokens[index_key]
IndexToken(idx) ==
    LET cols == SortedNames(idx.columns)
        with_opclass == SelectSeq(cols, LAMBDA c : OpclassOf(idx, c) # "")
        opclass_tokens == [i \in 1..Len(with_opclass) |->
                             <<with_opclass[i], OpclassOf(idx, with_opclass[i])>>]
    IN <<"INDEX", IF idx.unique THEN "UNIQUE" ELSE "NONUNIQUE", cols, idx.method,
         sorted(opclass_tokens,
                [i \in 1..Len(opclass_tokens) |->
                   <<StrRank(opclass_tokens[i][1]), StrRank(opclass_tokens[i][2])>>]),
         idx.where>>

\* The "  IDX :{unique}:{cols}" line.
IndexLine(idx) == <<"  IDX", IndexFlag(idx), SortedNames(idx.columns)>>

\* "|".join(membership_tokens): PK, then the sorted UQ tokens of the column.
membership_repr(table, column) ==
    LET pk_columns == {table.primary_key[i] : i \in 1..Len(table.primary_key)}
        unique_membership ==
            {SortedNames(table.uniques[i]) : i \in
                {j \in 1..Len(table.uniques) :
                    \E k \in 1..Len(table.uniques[j]) : table.uniques[j][k] = column.name}}
        uq_sorted == SortedSignatures(unique_membership)
        membership_tokens == (IF column.name \in pk_columns THEN << <<"PK">> >> ELSE <<>>)
                             \o [i \in 1..Len(uq_sorted) |-> <<"UQ", uq_sorted[i]>>]
    IN IF membership_tokens = <<>> THEN << <<"-">> >> ELSE membership_tokens

\* The suffix "[ondelete=...]" of a foreign key.
ForeignKeyActions(fk) == IF fk.ondelete # "" THEN <<"ondelete", fk.ondelete>> ELSE <<>>

\* "|".join(fk_tokens) over sorted(column.foreign_keys, key=(target table,
\* target column)).
fk_repr(column) ==
    LET fks == sorted(column.foreign_keys,
                      [i \in 1..Len(column.foreign_keys) |->
                         <<StrRank(column.foreign_keys[i].target_table),
                           StrRank(column.foreign_keys[i].target_column)>>])
        fk_tokens == [i \in 1..Len(fks) |->
                        <<fks[i].target_table, fks[i].target_column>>
                        \o ForeignKeyActions(fks[i])]
    IN IF fk_tokens = <<>> THEN << <<"-">> >> ELSE fk_tokens

\* "|".join(sorted(index_repr_tokens))
index_repr(table, column) ==
    LET indexes == SelectSeq(SortedIndexes(table),
                             LAMBDA idx : \E k \in 1..Len(idx.columns) :
                                             idx.columns[k] = column.name)
        index_repr_tokens == [i \in 1..Len(indexes) |->
                                ColumnIndexToken(indexes[i], column.name)]
        ordered == sorted(index_repr_tokens,
                          [i \in 1..Len(index_repr_tokens) |->
                             [k \in 1..5 |-> StrRank(index_repr_tokens[i][k])]])
    IN IF ordered = <<>> THEN << <<"-">> >> ELSE ordered

\* token_map["{table_label}.{column.name}"]
ReflectedColumnToken(table, column) ==
    <<column.type, IF column.nullable THEN "NULL" ELSE "NOTNULL", "__NO_DEFAULT__",
      membership_repr(table, column), fk_repr(column), index_repr(table, column)>>

\* The "  FK :{parent}->{target}({target_column})" line.
ForeignKeyLine(fk) ==
    <<"  FK", fk.parent, fk.target_table, fk.target_column>> \o ForeignKeyActions(fk)

\* The lines schema_fingerprint appends to parts for one reflected table.
ReflectedTableParts(table) ==
    LET indexes == SortedIndexes(table)
        columns == sorted(table.columns,
                          [i \in 1..Len(table.columns) |-> <<StrRank(table.columns[i].name)>>])
        uniques == sorted(table.uniques,
                          [i \in 1..Len(table.uniques) |->
                             <<JoinRank(SortedNames(table.uniques[i]))>>])
        checks == sorted(table.checks,
                         [i \in 1..Len(table.checks) |-> <<StrRank(table.checks[i])>>])
        foreign_keys == sorted(table.foreign_keys,
                               [i \in 1..Len(table.foreign_keys) |->
                                  <<StrRank(table.name),
                                    StrRank(table.foreign_keys[i].parent),
                                    StrRank(table.foreign_keys[i].target_table),
                                    StrRank(table.foreign_keys[i].target_column)>>])
    IN <<(<<"TABLE", "", table.name>>)>>
       \o [i \in 1..Len(indexes) |-> IndexLine(indexes[i])]
       \o [i \in 1..Len(columns) |-> ColumnLine(columns[i])]
       \o (IF table.primary_key # <<>> THEN << <<"  PK">> \o table.primary_key >> ELSE <<>>)
       \o [i \in 1..Len(uniques) |-> <<"  UQ", SortedNames(uniques[i])>>]
       \o [i \in 1..Len(checks) |-> <<"  CK", checks[i]>>]
       \o [i \in 1..Len(foreign_keys) |-> ForeignKeyLine(foreign_keys[i])]

\* for table in sorted(md.tables.values(), key=(schema, name))
SortedTables(md) ==
    sorted(md.tables, [i \in 1..Len(md.tables) |-> <<StrRank(""), StrRank(md.tables[i].name)>>])

RECURSIVE ReflectedParts(_, _)
ReflectedParts(tables, i) ==
    IF i > Len(tables) THEN <<>>
    ELSE ReflectedTableParts(tables[i]) \o ReflectedParts(tables, i + 1)

\* The keys of token_map, "<table>.<column>" for a column and
\* "<table>.index.<name>" for an index, with what they name.
ReflectedKeys ==
    {[key |-> "t.a", table |-> "t", column |-> "a", index |-> ""],
     [key |-> "t.b", table |-> "t", column |-> "b", index |-> ""],
     [key |-> "u.id", table |-> "u", column |-> "id", index |-> ""],
     [key |-> "t.index.ix1", table |-> "t", column |-> "", index |-> "ix1"],
     [key |-> "t.index.ix2", table |-> "t", column |-> "", index |-> "ix2"],
     [key |-> "t.index.ix3", table |-> "t", column |-> "", index |-> "ix3"]}

\* The keys token_map gets for a reflected MetaData.
TokenKeys(md) ==
    {e \in ReflectedKeys :
        \E t \in 1..Len(md.tables) :
           /\ md.tables[t].name = e.table
           /\ \/ \E c \in 1..Len(md.tables[t].columns) : md.tables[t].columns[c].name = e.column
              \/ \E x \in 1..Len(md.tables[t].indexes) : md.tables[t].indexes[x].name = e.index}

\* schema_fingerprint of a reflected MetaData: digest, text and token map.
schema_fingerprint_reflected(md) ==
    LET text == ReflectedParts(SortedTables(md), 1)
        entries == TokenKeys(md)
        entry(key) == CHOOSE e \in entries : e.key = key
        table_of(e) == md.tables[CHOOSE t \in 1..Len(md.tables) : md.tables[t].name = e.table]
        column_of(e) ==
            LET table == table_of(e) IN
            table.columns[CHOOSE c \in 1..Len(table.columns) : table.columns[c].name = e.column]
        index_of(e) ==
            LET indexes == SortedIndexes(table_of(e))
                named == {x \in 1..Len(indexes) : indexes[x].name = e.index}
            IN indexes[CHOOSE x \in named : \A y \in named : y <= x]
    IN [digest |-> sha256_hexdigest(text),
        text |-> text,
        tokens |-> [key \in {e.key : e \in entries} |->
                      IF entry(key).index = ""
                      THEN ReflectedColumnToken(table_of(entry(key)), column_of(entry(key)))
                      ELSE IndexToken(index_of(entry(key)))]]

\* ------------------------------------------- schemas and their reflections
\* The indexes and the foreign keys a table t(a, b) can have; u(id) is the
\* table the foreign keys point to.  Two foreign keys may leave the same
\* column for the same target and differ in their ON DELETE action.
IndexCatalog ==
    {[name |-> "ix2", unique |-> TRUE, columns |-> {"a", "b"}, method |-> "",
      ops |-> <<>>, where |-> ""],
     [name |-> "ix3", unique |-> FALSE, columns |-> {"a"}, method |-> "gin",
      ops |-> [c \in {"a"} |-> "ops1"], where |-> "a > 0"]}

ForeignKeyCatalog ==
    {[parent |-> "a", target_table |-> "u", target_column |-> "id", ondelete |-> ""],
     [parent |-> "a", target_table |-> "u", target_column |-> "id", ondelete |-> "CASCADE"],
     [parent |-> "b", target_table |-> "u", target_column |-> "id", ondelete |-> ""]}

\* The structure of a database: what table t has, as sets.
Structures ==
    [primary_key : {{}, {"a", "b"}},
     indexes : SUBSET IndexCatalog,
     uniques : {{}, {{"a", "b"}}},
     checks : {{}, {"a > 0", "b > 0"}},
     foreign_keys : {S \in SUBSET ForeignKeyCatalog : Cardinality(S) <= MaxForeignKeys}]

\* The enumerations of a set.
Enumerations(S) ==
    {q \in [1..Cardinality(S) -> S] : \A i, j \in 1..Cardinality(S) : q[i] = q[j] => i = j}

\* The enumerations of a set of column sets, each column set enumerated too.
NestedEnumerations(S) ==
    UNION {{q \in [1..Len(p) -> UNION {Enumerations(x) : x \in S}] :
               \A i \in 1..Len(p) : q[i] \in Enumerations(p[i])}
           : p \in Enumerations(S)}

\* The enumerations of a set of indexes, with the columns of each enumerated.
IndexEnumerations(S) ==
    UNION {{q \in [1..Len(p) -> UNION {{[x EXCEPT !.columns = c] : c \in Enumerations(x.columns)}
                                        : x \in S}] :
               \A i \in 1..Len(p) :
                  q[i] \in {[p[i] EXCEPT !.columns = c] : c \in Enumerations(p[i].columns)}}
           : p \in Enumerations(S)}

\* The reflected table u(id).
TableU ==
    [name |-> "u",
     columns |-> <<[name |-> "id", type |-> "INTEGER", nullable |-> FALSE,
                    primary_key |-> TRUE, foreign_keys |-> <<>>]>>,
     primary_key |-> <<"id">>, indexes |-> <<>>, uniques |-> <<>>, checks |-> <<>>,
     foreign_keys |-> <<>>]

\* The reflections of a structure: every collection in some order.
Reflections(st) ==
    LET of_column(name) == {fk \in st.foreign_keys : fk.parent = name} IN
    {[tables |->
        [i \in 1..2 |->
           IF table_order[i] = "u" THEN TableU
           ELSE [name |-> "t",
                 columns |->
                    [k \in 1..2 |->
                       [name |-> column_order[k], type |-> "INTEGER", nullable |-> TRUE,
                        primary_key |-> column_order[k] \in st.primary_key,
                        foreign_keys |-> IF column_order[k] = "a" THEN fks_a ELSE fks_b]],
                 primary_key |-> pk,
                 indexes |-> indexes,
                 uniques |-> uniques,
                 checks |-> checks,
                 foreign_keys |-> fks]]]
     : table_order \in Enumerations({"t", "u"}),
       column_order \in Enumerations({"a", "b"}),
       pk \in Enumerations(st.primary_key),
       indexes \in IndexEnumerations(st.indexes),
       uniques \in NestedEnumerations(st.uniques),
       checks \in Enumerations(st.checks),
       fks \in Enumerations(st.foreign_keys),
       fks_a \in Enumerations(of_column("a")),
       fks_b \in Enumerations(of_column("b"))}

\* The pairs of reflections of a structure that are compared: one fixed
\* reflection and any reflection.
ReflectionPairs(st) ==
    LET all == Reflections(st)
        first == CHOOSE md \in all : TRUE
    IN {<<first, md>> : md \in all}

FingerprintInit ==
    /\ structure \in Structures
    /\ reflections \in ReflectionPairs(structure)
    /\ fingerprints = <<>>
    /\ first_mismatch = NotCalled
    /\ revision_graph = NoGraph
    /\ build_order = <<>>
    /\ build_visited = {}
    /\ build_current = _BASE_REVISION
    /\ build_result = NotCalled
    /\ NoDdl
    /\ pc = "fingerprint"
    /\ script = [revs |-> {}, down |-> <<>>]
    /\ code_head = MinRev(RevUniverse)
    /\ has_callback = FALSE
    /\ db = EmptyDb
    /\ env = NoEnvironment
    /\ issues = <<>>
    /\ streamed = <<>>
    /\ trace = <<>>
    /\ linear_order = <<>>
    /\ snapshots = <<>>
    /\ current_revision = _BASE_REVISION
    /\ child_index = 1
    /\ edge_issues = <<>>
    /\ child_snapshot = NoSnapshot
    /\ prepared_snapshot = NoSnapshot
    /\ upgrade_then_downgrade = TRUE
    /\ state_issue = NoIssue
    /\ report_all_drift = FALSE
    /\ skip_roundtrips = FALSE
    /\ report_json = "None"
    /\ topo = <<>>
    /\ topo_index = 1
    /\ f_r = None
    /\ validation = NotCalled
    /\ main_result = NotCalled
    /\ report = NoReport

\* schema_fingerprint is called on each of the two reflections.
FingerprintReflections ==
    /\ pc = "fingerprint"
    /\ fingerprints' = [i \in 1..2 |-> schema_fingerprint_reflected(reflections[i])]
    /\ pc' = "fingerprinted"
    /\ UNCHANGED <<ddl_frame, build_frame, structure, reflections, first_mismatch, cli_frame, inputs, library_frame,
                   db, env, issues, trace>>

FingerprintNext == FingerprintReflections

FingerprintSpec == FingerprintInit /\ [][FingerprintNext]_vars

\* ------------------------------- two snapshots of two structural states
\* No run of validate_history or of the tool is under way.
NoValidation ==
    /\ code_head = MinRev(RevUniverse)
    /\ has_callback = FALSE
    /\ db = EmptyDb
    /\ env = NoEnvironment
    /\ issues = <<>>
    /\ streamed = <<>>
    /\ trace = <<>>
    /\ linear_order = <<>>
    /\ snapshots = <<>>
    /\ current_revision = _BASE_REVISION
    /\ child_index = 1
    /\ child_snapshot = NoSnapshot
    /\ prepared_snapshot = NoSnapshot
    /\ upgrade_then_downgrade = TRUE
    /\ state_issue = NoIssue
    /\ report_all_drift = FALSE
    /\ skip_roundtrips = FALSE
    /\ report_json = "None"
    /\ topo = <<>>
    /\ topo_index = 1
    /\ f_r = None
    /\ validation = NotCalled
    /\ main_result = NotCalled
    /\ report = NoReport

\* Neither a run nor a call of _build_linear_revision_order is under way.
NoRun ==
    /\ script = [revs |-> {}, down |-> <<>>]
    /\ NoValidation
    /\ revision_graph = NoGraph
    /\ build_order = <<>>
    /\ build_visited = {}
    /\ build_current = _BASE_REVISION
    /\ build_result = NotCalled
    /\ NoDdl

\* An index on column a of table t, and the indexes that differ from it in
\* one attribute: name, uniqueness, method, operator class, predicate.
BaseIndex ==
    [name |-> "ix1", unique |-> FALSE, columns |-> {"a"}, method |-> "", ops |-> <<>>,
     where |-> ""]

IndexVariants ==
    {BaseIndex,
     [BaseIndex EXCEPT !.name = "ix2"],
     [BaseIndex EXCEPT !.unique = TRUE],
     [BaseIndex EXCEPT !.method = "gin"],
     [BaseIndex EXCEPT !.ops = [c \in {"a"} |-> "ops1"]],
     [BaseIndex EXCEPT !.where = "a > 0"]}

\* The structural states a database is in before and after a round trip.
PairStructures ==
    [primary_key : {{}, {"a"}},
     indexes : {{}} \cup {{x} : x \in IndexVariants},
     uniques : {{}, {{"a"}}},
     checks : {{}, {"a > 0"}},
     foreign_keys : {{}, {[parent |-> "a", target_table |-> "u", target_column |-> "id",
                           ondelete |-> ""]}}]

\* The MetaData reflected from a structural state.
ReflectionOf(st) == CHOOSE md \in Reflections(st) : TRUE

SnapshotPairInit ==
    /\ structure \in PairStructures \X PairStructures
    /\ reflections = <<ReflectionOf(structure[1]), ReflectionOf(structure[2])>>
    /\ fingerprints = <<>>
    /\ first_mismatch = NotCalled
    /\ edge_issues = <<>>
    /\ pc = "snapshots"
    /\ NoRun

\* _verify_roundtrip from "snap_back = schema_fingerprint(...)" on:
\* fingerprints[1] is prepared_snapshot, fingerprints[2] is snap_back.
CompareSnapshots ==
    /\ pc = "snapshots"
    /\ LET prepared == schema_fingerprint_reflected(reflections[1])
           snap_back == schema_fingerprint_reflected(reflections[2])
       IN /\ fingerprints' = <<prepared, snap_back>>
          /\ IF snap_back.digest # prepared.digest
             THEN /\ first_mismatch' =
                        [outcome |-> "returned",
                         value |-> _first_token_mismatch(prepared.tokens, snap_back.tokens)]
                  /\ edge_issues' = <<RoundtripIssue(<<RevNames[1], "base", RevNames[1]>>,
                                                     prepared, snap_back)>>
             ELSE UNCHANGED <<first_mismatch, edge_issues>>
    /\ pc' = "compared"
    /\ UNCHANGED <<ddl_frame, build_frame, structure, reflections, cli_frame, inputs, db, env, issues, streamed,
                   trace, walk_frame, child_snapshot, roundtrip_frame>>

\* diffs.upgrade_ops of autogen_api.produce_migrations for a live schema and
\* the models' MetaData: Alembic's autogenerate compares tables and columns
\* (here the same on both sides), indexes by name, unique constraints and
\* foreign keys; it does not compare CHECK or PRIMARY KEY constraints.
upgrade_ops(live, models) ==
    {<<"remove_index", x.name>> : x \in live.indexes \ models.indexes}
    \cup {<<"add_index", x.name>> : x \in models.indexes \ live.indexes}
    \cup {<<"drop_constraint", "unique", u>> : u \in live.uniques \ models.uniques}
    \cup {<<"add_constraint", "unique", u>> : u \in models.uniques \ live.uniques}
    \cup {<<"drop_constraint", "foreignkey", fk.parent>> :
             fk \in live.foreign_keys \ models.foreign_keys}
    \cup {<<"add_constraint", "foreignkey", fk.parent>> :
             fk \in models.foreign_keys \ live.foreign_keys}

\* _autogen_diff_is_empty for a live schema and the models, as structures.
_autogen_diff_is_empty_of_structures(live, models) ==
    LET ops == upgrade_ops(live, models) IN [ok |-> ops = {}, diff_text |-> ops]

\* validate_history, lines 1153-1174, at head: structure[1] is the live
\* schema, structure[2] the schema the declarative models describe.
CompareStructureWithModels ==
    /\ pc = "snapshots"
    /\ LET result == _autogen_diff_is_empty_of_structures(structure[1], structure[2])
           issue == Issue("models-drift", RevNames[1], <<RevNames[1], "head">>,
                          <<"Autogenerate suggests the following upgrade operations",
                            result.diff_text>>)
       IN IF ~result.ok
          THEN issues' = Append(issues, issue)
          ELSE UNCHANGED issues
    /\ pc' = "models_compared"
    /\ UNCHANGED <<ddl_frame, build_frame, fingerprint_frame, cli_frame, inputs, db, env, streamed, trace, walk_frame,
                   edge_frame, roundtrip_frame>>

SnapshotPairNext ==
    \/ CompareSnapshots
    \/ CompareStructureWithModels

SnapshotPairSpec == SnapshotPairInit /\ [][SnapshotPairNext]_vars

\* ----------------------------------- _first_token_mismatch on two maps
\* The keys and the token tuples of the maps handed to _first_token_mismatch.
MismatchKeys == {"old.z", "t.b", "t.index.ix1"}

MismatchTokens ==
    {<<"INTEGER", "NULL", "__NO_DEFAULT__", "-", "-", "-">>,
     <<"INTEGER", "NOTNULL", "__NO_DEFAULT__", "-", "-", "-">>}

TokenMaps == UNION {[K -> MismatchTokens] : K \in SUBSET MismatchKeys}

MismatchInit ==
    /\ structure = NoStructure
    /\ reflections = <<>>
    /\ fingerprints \in {<<[NoSnapshot EXCEPT !.tokens = before],
                           [NoSnapshot EXCEPT !.tokens = after]>> :
                            before \in TokenMaps, after \in TokenMaps}
    /\ first_mismatch = NotCalled
    /\ edge_issues = <<>>
    /\ pc = "tokens"
    /\ NoRun

\* token_diff = _first_token_mismatch(prepared_snapshot.tokens, snap_back.tokens)
FirstTokenMismatch ==
    /\ pc = "tokens"
    /\ first_mismatch' =
          [outcome |-> "returned",
           value |-> _first_token_mismatch(fingerprints[1].tokens, fingerprints[2].tokens)]
    /\ pc' = "mismatch_returned"
    /\ UNCHANGED <<ddl_frame, build_frame, structure, reflections, fingerprints, cli_frame, inputs, db, env, issues,
                   streamed, trace, walk_frame, edge_frame, roundtrip_frame>>

MismatchNext == FirstTokenMismatch

MismatchSpec == MismatchInit /\ [][MismatchNext]_vars

\* ------------------- _build_linear_revision_order, one loop turn at a time
MaxWalkNodes == 2

MaxChildren == 2

\* The nodes of a parents/children map handed to _build_linear_revision_order
\* directly, and the children a node can have in it.
WalkNodes == {_BASE_REVISION} \cup {RevNames[i] : i \in 1..MaxWalkNodes}

ChildSets == {S \in SUBSET WalkNodes : Cardinality(S) <= MaxChildren}

\* topo, parents and children for a children map: any map, with cycles and
\* self-loops; parents is the inverse of children.
GraphOfChildren(children) ==
    [topo |-> WalkNodes,
     parents |-> [r \in WalkNodes |-> {p \in WalkNodes : r \in children[p]}],
     children |-> children]

\* sorted(cs)[0]; "__BASE__" sorts before the revision names used here.
FirstSorted(cs) == IF _BASE_REVISION \in cs THEN _BASE_REVISION ELSE MinRev(cs)

\* children.get(current, ())
ChildrenOf(current) ==
    IF current \in DOMAIN revision_graph.children THEN revision_graph.children[current]
    ELSE {}

BuilderInit ==
    /\ \/ /\ script \in Scripts
          /\ revision_graph = NoGraph
          /\ pc = "discover"
       \/ /\ script = [revs |-> {}, down |-> <<>>]
          /\ revision_graph \in {GraphOfChildren(c) : c \in [WalkNodes -> ChildSets]}
          /\ pc = "build"
    /\ build_order = <<>>
    /\ build_visited = {}
    /\ build_current = _BASE_REVISION
    /\ build_result = NotCalled
    /\ NoDdl
    /\ NoValidation
    /\ edge_issues = <<>>
    /\ structure = NoStructure
    /\ reflections = <<>>
    /\ fingerprints = <<>>
    /\ first_mismatch = NotCalled

\* What a step of the builder leaves alone.
builder_rest == <<script, code_head, has_callback, db, env, issues, streamed, trace,
                  walk_frame, edge_frame, roundtrip_frame, cli_frame, fingerprint_frame,
                  ddl_frame>>

\* topo, parents, children = _discover_revision_graph(script)
DiscoverRevisionGraph ==
    /\ pc = "discover"
    /\ revision_graph' = _discover_revision_graph(script)
    /\ pc' = "build"
    /\ UNCHANGED <<build_order, build_visited, build_current, build_result, builder_rest>>

BuildReturns(order, issue) ==
    /\ build_result' = [outcome |-> "returned", order |-> order, issue |-> issue]
    /\ pc' = "build_returned"

\* _build_linear_revision_order, lines 843-886: the two loops over children
\* and parents, then order, visited and current are set up.
BuildChecks ==
    /\ pc = "build"
    /\ LET children == revision_graph.children
           parents == revision_graph.parents
           multiChild == {r \in DOMAIN children : Cardinality(children[r]) > 1}
           multiParent == {r \in DOMAIN parents :
                             /\ r # _BASE_REVISION
                             /\ Cardinality(parents[r] \ {_BASE_REVISION}) > 1}
       IN IF multiChild # {}
          THEN /\ \E r \in multiChild :
                     BuildReturns(<<>>,
                        IF r = _BASE_REVISION
                        THEN Issue("multi-branch-repository", "repository",
                                   <<"repository", "children", "base">>,
                                   <<"Base revision has multiple children", children[r]>>)
                        ELSE Issue("multi-branch-repository", r,
                                   <<"repository", "children", r>>,
                                   <<"Revision has multiple children", children[r]>>))
               /\ UNCHANGED <<build_order, build_visited, build_current>>
          ELSE IF multiParent # {}
          THEN /\ \E r \in multiParent :
                     BuildReturns(<<>>,
                        Issue("multi-branch-repository", r, <<"repository", "parents", r>>,
                              <<"Revision has multiple parents",
                                parents[r] \ {_BASE_REVISION}>>))
               /\ UNCHANGED <<build_order, build_visited, build_current>>
          ELSE /\ build_order' = <<_BASE_REVISION>>
               /\ build_visited' = {_BASE_REVISION}
               /\ build_current' = _BASE_REVISION
               /\ pc' = "build_walk"
               /\ UNCHANGED build_result
    /\ UNCHANGED <<revision_graph, builder_rest>>

\* Mutant of BuildWalkStep: the child is visited but not appended to order.
BuildWalkStep_without_append ==
    /\ pc = "build_walk"
    /\ LET cs == ChildrenOf(build_current) IN
       IF cs = {}
       THEN /\ pc' = "build_coverage"
            /\ UNCHANGED <<build_order, build_visited, build_current, build_result>>
       ELSE LET child == FirstSorted(cs) IN
            IF child \in build_visited
            THEN /\ BuildReturns(<<>>, Issue("multi-branch-repository", child,
                                             <<"repository", "cycle", child>>,
                                             <<"Cycle detected", child>>))
                 /\ UNCHANGED <<build_order, build_visited, build_current>>
            ELSE /\ build_visited' = build_visited \cup {child}
                 /\ build_current' = child
                 /\ UNCHANGED <<pc, build_order, build_result>>
    /\ UNCHANGED <<revision_graph, builder_rest>>

\* Mutant of BuildWalkStep: the walk moves on without looking at visited.
BuildWalkStep_without_visited ==
    /\ pc = "build_walk"
    /\ LET cs == ChildrenOf(build_current) IN
       IF cs = {}
       THEN /\ pc' = "build_coverage"
            /\ UNCHANGED build_current
       ELSE /\ build_current' = FirstSorted(cs)
            /\ UNCHANGED pc
    /\ UNCHANGED <<revision_graph, build_order, build_visited, build_result, builder_rest>>

\* _build_linear_revision_order, lines 888-911: one turn of the while loop.
BuildWalkStep ==
    /\ pc = "build_walk"
    /\ LET cs == ChildrenOf(build_current) IN
       IF cs = {}
       THEN /\ pc' = "build_coverage"
            /\ UNCHANGED <<build_order, build_visited, build_current, build_result>>
       ELSE LET child == FirstSorted(cs) IN
            IF child \in build_visited
            THEN /\ BuildReturns(<<>>, Issue("multi-branch-repository", child,
                                             <<"repository", "cycle", child>>,
                                             <<"Cycle detected", child>>))
                 /\ UNCHANGED <<build_order, build_visited, build_current>>
            ELSE /\ build_order' = Append(build_order, child)
                 /\ build_visited' = build_visited \cup {child}
                 /\ build_current' = child
                 /\ UNCHANGED <<pc, build_result>>
    /\ UNCHANGED <<revision_graph, builder_rest>>

\* Mutant of BuildCoverage: the order is returned whatever was visited.
BuildCoverage_without_comparison ==
    /\ pc = "build_coverage"
    /\ BuildReturns(build_order, NoIssue)
    /\ UNCHANGED <<revision_graph, build_order, build_visited, build_current, builder_rest>>

\* Mutant of BuildCoverage: the linear-order issue is returned whatever was
\* visited.
BuildCoverage_always_unreached ==
    /\ pc = "build_coverage"
    /\ BuildReturns(<<>>, Issue("multi-branch-repository", "repository",
                                <<"repository", "linear-order">>,
                                <<"Unreached revisions",
                                  revision_graph.topo \ build_visited>>))
    /\ UNCHANGED <<revision_graph, build_order, build_visited, build_current, builder_rest>>

\* _build_linear_revision_order, lines 913-928: the visited set against topo.
BuildCoverage ==
    /\ pc = "build_coverage"
    /\ LET expected == revision_graph.topo IN
       IF build_visited # expected
       THEN BuildReturns(<<>>, Issue("multi-branch-repository", "repository",
                                     <<"repository", "linear-order">>,
                                     <<"Unreached revisions", expected \ build_visited>>))
       ELSE BuildReturns(build_order, NoIssue)
    /\ UNCHANGED <<revision_graph, build_order, build_visited, build_current, builder_rest>>

BuilderNext ==
    \/ DiscoverRevisionGraph
    \/ BuildChecks
    \/ BuildWalkStep
    \/ BuildCoverage

BuilderSpec == BuilderInit /\ [][BuilderNext]_vars

\* The builder is a sequential function: a step that can be taken is taken.
BuilderFairSpec == BuilderSpec /\ WF_vars(BuilderNext)

\* ----------------------------------- databases that DDL statements run on
MaxFaults == 2

\* Nothing of validate_history, of the tool, of the builder or of the
\* fingerprinting is under way.
NoAnalysis ==
    /\ script = [revs |-> {}, down |-> <<>>]
    /\ NoValidation
    /\ revision_graph = NoGraph
    /\ build_order = <<>>
    /\ build_visited = {}
    /\ build_current = _BASE_REVISION /\ build_result = NotCalled
    /\ edge_issues = <<>>
    /\ structure = NoStructure
    /\ reflections = <<>>
    /\ fingerprints = <<>>
    /\ first_mismatch = NotCalled

\* What a DDL helper, a migration or _drop_everything leaves alone.
ddl_rest == <<script, code_head, has_callback, db, env, issues, streamed, trace,
              walk_frame, edge_frame, roundtrip_frame, cli_frame, fingerprint_frame,
              build_frame>>

NoException == [type |-> "None"]

\* A table without constraints or indexes.
PlainTable(columns) ==
    [columns |-> columns, primary_key |-> {}, indexes |-> {}, foreign_keys |-> {},
     checks |-> {}]

WithoutTable(tables, table) == [n \in (DOMAIN tables) \ {table} |-> tables[n]]

\* ------------------------------------------------------- _drop_everything
DropTableNames == {"t", "u"}

\* reversed(md.sorted_tables), for the tables that exist.
DropOrder(tables) ==
    SelectSeq(<<"u", "t", "alembic_version">>, LAMBDA n : n \in DOMAIN tables)

DropDatabases ==
    {[tables |-> [n \in S |-> PlainTable({"id"})],
      enums |-> E,
      foreign_key_checks |-> TRUE,
      transaction |-> "none"] :
        S \in SUBSET (DropTableNames \cup {"alembic_version"}), E \in SUBSET {"e"}}

\* The positions, in the order of sending, of the statements of the try
\* block that the server rejects.
DropPositions == 1..(2 * Cardinality(DropTableNames) + 6)

DropFaults == {F \in SUBSET DropPositions : Cardinality(F) <= MaxFaults}

\* conn.execute(sql) inside _drop_everything: the statement is sent, and
\* applied unless the server rejects it.
conn_execute(run, faults, sql, applicable, applied) ==
    LET position == Len(run.log) + 1 IN
    IF position \in faults \/ ~applicable
    THEN [server |-> run.server,
          log |-> Append(run.log, [sql |-> sql, ok |-> FALSE]),
          raised |-> [type |-> "DatabaseError", statement |-> position]]
    ELSE [server |-> applied,
          log |-> Append(run.log, [sql |-> sql, ok |-> TRUE]),
          raised |-> NoException]

\* for table in reversed(md.sorted_tables): DropTable(table, if_exists=True),
\* and DropTable(table) when that raised.
RECURSIVE drop_tables(_, _, _)
drop_tables(run, faults, names) ==
    IF names = <<>> \/ run.raised # NoException THEN run
    ELSE LET table == Head(names)
             first == conn_execute(run, faults, <<"DROP TABLE IF EXISTS", table>>, TRUE,
                          [run.server EXCEPT !.tables = WithoutTable(@, table)])
             second == IF first.raised = NoException THEN first
                       ELSE conn_execute([first EXCEPT !.raised = NoException], faults,
                                <<"DROP TABLE", table>>, table \in DOMAIN first.server.tables,
                                [first.server EXCEPT !.tables = WithoutTable(@, table)])
         IN drop_tables(second, faults, Tail(names))

\* The version table: DropTable(version_table, if_exists=True), then
\* DropTable(version_table), then pass.
drop_version_table(run, faults) ==
    IF run.raised # NoException THEN run
    ELSE LET table == "alembic_version"
             first == conn_execute(run, faults, <<"DROP TABLE IF EXISTS", table>>, TRUE,
                          [run.server EXCEPT !.tables = WithoutTable(@, table)])
             second == conn_execute([first EXCEPT !.raised = NoException], faults,
                           <<"DROP TABLE", table>>, table \in DOMAIN first.server.tables,
                           [first.server EXCEPT !.tables = WithoutTable(@, table)])
         IN IF first.raised = NoException THEN first
            ELSE [second EXCEPT !.raised = NoException]

\* DROP TYPE IF EXISTS ... CASCADE for every enum, on PostgreSQL.
drop_enums(run, faults, dialect_name) ==
    IF run.raised # NoException \/ dialect_name # "postgresql" \/ run.server.enums = {}
    THEN run
    ELSE conn_execute(run, faults, <<"DROP TYPE IF EXISTS", "e">>, TRUE,
             [run.server EXCEPT !.enums = {}])

\* trans.commit()
drop_commit(run, faults) ==
    IF run.raised # NoException THEN run
    ELSE conn_execute(run, faults, <<"COMMIT">>, TRUE,
             [run.server EXCEPT !.transaction = "committed"])

\* except Exception: trans.rollback(); raise.  DDL is transactional on
\* PostgreSQL and SQLite; MySQL commits every DDL statement at once.
drop_except(run, began, dialect_name) ==
    IF run.raised = NoException THEN run
    ELSE [run EXCEPT !.log = Append(@, [sql |-> <<"ROLLBACK">>, ok |-> TRUE]),
                     !.server = IF dialect_name = "mysql"
                                THEN [@ EXCEPT !.transaction = "rolled back"]
                                ELSE [began EXCEPT !.transaction = "rolled back"]]

\* Mutant of drop_finally: foreign-key checks come back on a normal return only.
drop_finally_on_return_only(run, dialect_name) ==
    IF dialect_name = "mysql" /\ run.raised = NoException
    THEN [run EXCEPT !.log = Append(@, [sql |-> <<"SET FOREIGN_KEY_CHECKS=1">>, ok |-> TRUE]),
                     !.server = [@ EXCEPT !.foreign_key_checks = TRUE]]
    ELSE run

\* finally: SET FOREIGN_KEY_CHECKS=1 on MySQL.
drop_finally(run, dialect_name) ==
    IF dialect_name = "mysql"
    THEN [run EXCEPT !.log = Append(@, [sql |-> <<"SET FOREIGN_KEY_CHECKS=1">>, ok |-> TRUE]),
                     !.server = [@ EXCEPT !.foreign_key_checks = TRUE]]
    ELSE run

\* SET FOREIGN_KEY_CHECKS=0 on MySQL.
drop_disable(run, faults, dialect_name) ==
    IF dialect_name = "mysql"
    THEN conn_execute(run, faults, <<"SET FOREIGN_KEY_CHECKS=0">>, TRUE,
             [run.server EXCEPT !.foreign_key_checks = FALSE])
    ELSE run

\* md.reflect(bind=conn, schema=schema)
drop_reflect(run, faults) ==
    IF run.raised # NoException THEN run
    ELSE conn_execute(run, faults, <<"reflect">>, TRUE, run.server)

\* _drop_everything(engine) for the default schema, statement by statement.
_drop_everything_statements(began, dialect_name, faults) ==
    LET opened == [server |-> [began EXCEPT !.transaction = "open"], log |-> <<>>,
                   raised |-> NoException]
        disabled == drop_disable(opened, faults, dialect_name)
        reflected == drop_reflect(disabled, faults)
        dropped == drop_tables(reflected, faults, DropOrder(reflected.server.tables))
        version_dropped == drop_version_table(dropped, faults)
        enums_dropped == drop_enums(version_dropped, faults, dialect_name)
        committed == drop_commit(enums_dropped, faults)
        handled == drop_except(committed, began, dialect_name)
    IN drop_finally(handled, dialect_name)

DropInit ==
    /\ dialect \in {"mysql", "postgresql", "sqlite"}
    /\ server \in DropDatabases
    /\ statements = <<>>
    /\ ddl_call = <<>>
    /\ pc = "connected"
    /\ NoAnalysis

DropEverything ==
    /\ pc = "connected"
    /\ \E faults \in DropFaults :
          LET run == _drop_everything_statements(server, dialect, faults) IN
          /\ server' = run.server
          /\ statements' = run.log
          /\ ddl_call' = <<[function |-> "_drop_everything", began |-> server,
                            faults |-> faults, raised |-> run.raised]>>
    /\ pc' = "dropped"
    /\ UNCHANGED <<dialect, ddl_rest>>

DropNext == DropEverything

DropSpec == DropInit /\ [][DropNext]_vars

\* ------------------------------------------ migrate_repo/ddl_helpers.py
\* An error message is the set of the fragments it contains, in lower case.
MYSQL_GENERAL_MISSING_TOKENS ==
    {"doesn't exist", "does not exist", "unknown constraint", "unknown index",
     "unknown key", "check that column/key exists", "check that it exists"}

MYSQL_CONSTRAINT_MISSING_TOKENS ==
    MYSQL_GENERAL_MISSING_TOKENS \cup {"can't drop foreign key", "can't drop constraint"}

MYSQL_INDEX_MISSING_TOKENS ==
    MYSQL_GENERAL_MISSING_TOKENS \cup {"no such index", "can't drop index"}

MYSQL_PRIMARY_KEY_MISSING_TOKENS ==
    MYSQL_GENERAL_MISSING_TOKENS \cup {"can't drop primary key"}

ORACLE_INDEX_MISSING_TOKENS == {"specified index does not exist", "ora-01418"}

_matches_any(message, tokens) == \E token \in tokens : token \in message

\* _dialect_name(): "mariadb" is normalised to "mysql".
_dialect_name(name) == IF name = "mariadb" THEN "mysql" ELSE name

\* The names of the constraints of a table.
ConstraintNames(table) ==
    table.foreign_keys \cup {c.name : c \in table.checks} \cup {k.name : k \in table.primary_key}

\* What the server answers when the object of a DROP is not there.
MissingMessage(srv, dialect_name, kind) ==
    IF dialect_name \in {"mysql", "mariadb"}
    THEN IF kind = "check" /\ srv.check_wording = "not found"
         THEN {"is not found in the table"}
         ELSE IF kind = "constraint" THEN {"check that it exists"}
         ELSE {"check that column/key exists"}
    ELSE IF dialect_name = "oracle"
    THEN IF kind = "index"
         THEN {"specified index does not exist", "ora-01418", "does not exist"}
         ELSE {"nonexistent constraint"}
    ELSE IF kind = "index" THEN {"no such index"} ELSE {"no such constraint"}

Answer(srv, message) == [server |-> srv, message |-> message]

\* The tables an index name is looked up in.
TablesOfIndex(srv, table, name) ==
    IF table = "None" THEN {n \in DOMAIN srv.tables : name \in srv.tables[n].indexes}
    ELSE {n \in {table} \cap DOMAIN srv.tables : name \in srv.tables[n].indexes}

WithoutIndex(srv, names, name) ==
    [srv EXCEPT !.tables = [n \in DOMAIN @ |->
        IF n \in names THEN [@[n] EXCEPT !.indexes = @ \ {name}] ELSE @[n]]]

WithoutConstraint(srv, table, name) ==
    [srv EXCEPT !.tables[table] =
        [@ EXCEPT !.foreign_keys = @ \ {name},
                  !.checks = {c \in @ : c.name # name},
                  !.primary_key = {k \in @ : k.name # name}]]

\* The server executes one statement <<kind, table, name>>: the changed
\* database and the error message, empty when the statement succeeded.
ServerExecute(srv, dialect_name, sql) ==
    LET kind == sql[1]
        table == sql[2]
        name == sql[3]
        there == table \in DOMAIN srv.tables
    IN
    CASE kind = "ALTER TABLE DROP FOREIGN KEY" ->
            IF there /\ name \in srv.tables[table].foreign_keys
            THEN Answer([srv EXCEPT !.tables[table].foreign_keys = @ \ {name}], {})
            ELSE Answer(srv, MissingMessage(srv, dialect_name, "key"))
      [] kind \in {"ALTER TABLE DROP INDEX", "DROP INDEX ON", "DROP INDEX"} ->
            IF TablesOfIndex(srv, table, name) # {}
            THEN Answer(WithoutIndex(srv, TablesOfIndex(srv, table, name), name), {})
            ELSE Answer(srv, MissingMessage(srv, dialect_name, "index"))
      [] kind = "ALTER TABLE DROP CHECK" ->
            IF ~srv.supports_drop_check THEN Answer(srv, {"syntax"})
            ELSE IF there /\ \E c \in srv.tables[table].checks : c.name = name
            THEN Answer([srv EXCEPT !.tables[table].checks = {c \in @ : c.name # name}], {})
            ELSE Answer(srv, MissingMessage(srv, dialect_name, "check"))
      [] kind = "ALTER TABLE DROP PRIMARY KEY" ->
            IF there /\ srv.tables[table].primary_key # {}
            THEN Answer([srv EXCEPT !.tables[table].primary_key = {}], {})
            ELSE Answer(srv, MissingMessage(srv, dialect_name, "key"))
      [] kind = "ALTER TABLE DROP CONSTRAINT" ->
            IF there /\ name \in ConstraintNames(srv.tables[table])
            THEN Answer(WithoutConstraint(srv, table, name), {})
            ELSE Answer(srv, MissingMessage(srv, dialect_name, "constraint"))
      [] kind = "ALTER TABLE IF EXISTS DROP CONSTRAINT IF EXISTS" ->
            IF there THEN Answer(WithoutConstraint(srv, table, name), {})
            ELSE Answer(srv, {})
      [] kind = "DROP INDEX IF EXISTS" ->
            Answer(WithoutIndex(srv, TablesOfIndex(srv, "None", name), name), {})
      [] kind = "DROP PRIMARY KEY IF PRESENT" ->
            IF there THEN Answer([srv EXCEPT !.tables[table].primary_key = {}], {})
            ELSE Answer(srv, {})
      [] kind = "ALTER TABLE ADD PRIMARY KEY" ->
            IF ~there \/ ~(sql[4] \subseteq srv.tables[table].columns)
            THEN Answer(srv, {"doesn't exist"})
            ELSE IF srv.tables[table].primary_key # {}
            THEN Answer(srv, {"multiple primary key defined"})
            ELSE Answer([srv EXCEPT !.tables[table].primary_key =
                            {[name |-> name, columns |-> sql[4]]}], {})
      [] kind = "ALTER TABLE ADD COLUMN" ->
            IF ~there THEN Answer(srv, {"doesn't exist"})
            ELSE IF name \in srv.tables[table].columns
            THEN Answer(srv, {"duplicate column name"})
            ELSE Answer([srv EXCEPT !.tables[table].columns = @ \cup {name}], {})
      [] kind = "ALTER TABLE DROP COLUMN" ->
            IF ~there \/ name \notin srv.tables[table].columns
            THEN Answer(srv, MissingMessage(srv, dialect_name, "key"))
            ELSE Answer([srv EXCEPT !.tables[table] =
                            [@ EXCEPT !.columns = @ \ {name},
                                      !.primary_key = {k \in @ : name \notin k.columns}]], {})
      [] kind = "ALTER TABLE ADD CHECK" ->
            IF ~there THEN Answer(srv, {"doesn't exist"})
            ELSE IF \E c \in srv.tables[table].checks : c.name = name
            THEN Answer(srv, {"duplicate check constraint name"})
            ELSE Answer([srv EXCEPT !.tables[table].checks =
                            @ \cup {[name |-> name, values |-> sql[4]]}], {})
      [] OTHER -> Answer(srv, {"syntax"})

\* A statement the server rejects whatever the database holds: the position
\* of the statement among those of the call, and the message.
NoFault == [at |-> 0, message |-> {}]

HelperRun(srv) == [server |-> srv, log |-> <<>>, raised |-> NoException, message |-> {}]

\* op.execute(sql): the statement is sent; message is what the server raised.
Answered(run, sql, answer) ==
    [server |-> answer.server,
     log |-> Append(run.log, [sql |-> sql, ok |-> answer.message = {},
                              message |-> answer.message]),
     raised |-> run.raised,
     message |-> answer.message]

op_execute(run, fault, dialect_name, sql) ==
    Answered(run, sql,
        IF fault.at = Len(run.log) + 1 THEN Answer(run.server, fault.message)
        ELSE ServerExecute(run.server, dialect_name, sql))

\* A statement outside any try block: the DatabaseError reaches the caller.
Propagated(run) ==
    IF run.message = {} THEN run ELSE [run EXCEPT !.raised = [type |-> "DatabaseError"]]

\* except DatabaseError: RuntimeError unless the message is tolerated.
Tolerated(run, tolerated) ==
    IF run.message = {} \/ tolerated THEN run
    ELSE [run EXCEPT !.raised = [type |-> "RuntimeError"]]

\* The messages each except clause lets pass.
ToleratedOnMySQL(sent, tokens) == Tolerated(sent, _matches_any(sent.message, tokens))

ToleratedConstraint(sent) ==
    Tolerated(sent,
        \/ "nonexistent constraint" \in sent.message
        \/ "undefined object" \in sent.message
        \/ "undefinedobject" \in sent.message
        \/ "no such constraint" \in sent.message
        \/ _matches_any(sent.message, MYSQL_CONSTRAINT_MISSING_TOKENS))

ToleratedIndex(sent) ==
    Tolerated(sent,
        \/ "nonexistent" \in sent.message
        \/ "undefined object" \in sent.message
        \/ "undefinedobject" \in sent.message
        \/ _matches_any(sent.message, MYSQL_INDEX_MISSING_TOKENS)
        \/ _matches_any(sent.message, ORACLE_INDEX_MISSING_TOKENS))

\* op.drop_constraint(constraint_name, table_name, type_=type_), as Alembic
\* renders it for the dialect.
op_drop_constraint(run, fault, context_dialect, constraint_name, table_name, type_) ==
    IF context_dialect = "sqlite"
    THEN [run EXCEPT !.raised = [type |-> "NotImplementedError"]]
    ELSE LET kind ==
                 IF context_dialect \in {"mysql", "mariadb"}
                 THEN CASE type_ = "foreignkey" -> "ALTER TABLE DROP FOREIGN KEY"
                        [] type_ = "primary" -> "ALTER TABLE DROP PRIMARY KEY"
                        [] type_ = "unique" -> "ALTER TABLE DROP INDEX"
                        [] type_ = "check" /\ context_dialect = "mysql" -> "ALTER TABLE DROP CHECK"
                        [] OTHER -> "ALTER TABLE DROP CONSTRAINT"
                 ELSE "ALTER TABLE DROP CONSTRAINT"
         IN op_execute(run, fault, context_dialect, <<kind, table_name, constraint_name>>)

\* statements of try_drop_constraint on MySQL when no type_ is given.
ProbeStatements ==
    <<[sql |-> "ALTER TABLE DROP FOREIGN KEY", allow_syntax |-> FALSE],
      [sql |-> "ALTER TABLE DROP INDEX", allow_syntax |-> FALSE],
      [sql |-> "ALTER TABLE DROP CHECK", allow_syntax |-> TRUE]>>

\* for stmt, allow_syntax in statements: ...
RECURSIVE mysql_probe(_, _, _, _, _, _)
RECURSIVE mysql_probe_sent(_, _, _, _, _, _)
mysql_probe(run, fault, context_dialect, table_name, constraint_name, k) ==
    IF k > Len(ProbeStatements) THEN run
    ELSE mysql_probe_sent(
             op_execute(run, fault, context_dialect,
                 <<ProbeStatements[k].sql, table_name, constraint_name>>),
             fault, context_dialect, table_name, constraint_name, k)

\* The body of the loop once op.execute(stmt) has returned or raised.
mysql_probe_sent(sent, fault, context_dialect, table_name, constraint_name, k) ==
    IF sent.message = {} THEN sent
    ELSE IF ~(\/ _matches_any(sent.message, MYSQL_CONSTRAINT_MISSING_TOKENS)
              \/ ProbeStatements[k].allow_syntax /\ "syntax" \in sent.message)
    THEN [sent EXCEPT !.raised = [type |-> "RuntimeError"]]
    ELSE mysql_probe(sent, fault, context_dialect, table_name, constraint_name, k + 1)

\* Mutant of try_drop_constraint: the probe tries DROP CHECK alone.
try_drop_constraint_check_only(srv, context_dialect, constraint_name, table_name, type_, fault) ==
    IF _dialect_name(context_dialect) = "postgresql"
    THEN Propagated(op_execute(HelperRun(srv), fault, context_dialect,
             <<"ALTER TABLE IF EXISTS DROP CONSTRAINT IF EXISTS", table_name, constraint_name>>))
    ELSE IF _dialect_name(context_dialect) = "mysql"
    THEN IF type_ # "None"
         THEN ToleratedOnMySQL(
                  op_drop_constraint(HelperRun(srv), fault, context_dialect, constraint_name,
                                     table_name, type_),
                  MYSQL_CONSTRAINT_MISSING_TOKENS)
         ELSE Tolerated(op_execute(HelperRun(srv), fault, context_dialect,
                  <<"ALTER TABLE DROP CHECK", table_name, constraint_name>>), TRUE)
    ELSE ToleratedConstraint(
             op_drop_constraint(HelperRun(srv), fault, context_dialect, constraint_name,
                                table_name, type_))

try_drop_constraint(srv, context_dialect, constraint_name, table_name, type_, fault) ==
    IF _dialect_name(context_dialect) = "postgresql"
    THEN Propagated(op_execute(HelperRun(srv), fault, context_dialect,
             <<"ALTER TABLE IF EXISTS DROP CONSTRAINT IF EXISTS", table_name, constraint_name>>))
    ELSE IF _dialect_name(context_dialect) = "mysql"
    THEN IF type_ # "None"
         THEN ToleratedOnMySQL(
                  op_drop_constraint(HelperRun(srv), fault, context_dialect, constraint_name,
                                     table_name, type_),
                  MYSQL_CONSTRAINT_MISSING_TOKENS)
         ELSE mysql_probe(HelperRun(srv), fault, context_dialect, table_name, constraint_name, 1)
    ELSE ToleratedConstraint(
             op_drop_constraint(HelperRun(srv), fault, context_dialect, constraint_name,
                                table_name, type_))

\* Mutant of try_drop_index: the table name is not required on MySQL.
try_drop_index_without_table_check(srv, context_dialect, index_name, table_name, fault) ==
    ToleratedOnMySQL(
        op_execute(HelperRun(srv), fault, context_dialect,
            <<"DROP INDEX ON", table_name, index_name>>),
        MYSQL_INDEX_MISSING_TOKENS)

try_drop_index(srv, context_dialect, index_name, table_name, fault) ==
    IF _dialect_name(context_dialect) = "postgresql"
    THEN Propagated(op_execute(HelperRun(srv), fault, context_dialect,
             <<"DROP INDEX IF EXISTS", "None", index_name>>))
    ELSE IF _dialect_name(context_dialect) = "mysql"
    THEN IF table_name = "None"
         THEN [HelperRun(srv) EXCEPT !.raised = [type |-> "ValueError"]]
         ELSE ToleratedOnMySQL(
                  op_execute(HelperRun(srv), fault, context_dialect,
                      <<"DROP INDEX ON", table_name, index_name>>),
                  MYSQL_INDEX_MISSING_TOKENS)
    ELSE ToleratedIndex(
             op_execute(HelperRun(srv), fault, context_dialect,
                 <<"DROP INDEX", table_name, index_name>>))

drop_current_primary_key(srv, context_dialect, table_name, fault) ==
    IF _dialect_name(context_dialect) = "mysql"
    THEN ToleratedOnMySQL(
             op_execute(HelperRun(srv), fault, context_dialect,
                 <<"ALTER TABLE DROP PRIMARY KEY", table_name, "None">>),
             MYSQL_PRIMARY_KEY_MISSING_TOKENS)
    ELSE IF _dialect_name(context_dialect) \in {"postgresql", "oracle"}
    THEN Propagated(op_execute(HelperRun(srv), fault, context_dialect,
             <<"DROP PRIMARY KEY IF PRESENT", table_name, "None">>))
    ELSE HelperRun(srv)

\* --------------------------------------------- calls of the DDL helpers
\* One table t; the name X may be that of a foreign key, of an index, of a
\* check constraint and of the primary key.  Outside MySQL the constraints of
\* a table share one namespace.
HelperTables ==
    {[columns |-> {"id"}, primary_key |-> P, indexes |-> I, foreign_keys |-> F, checks |-> C] :
        P \in SUBSET {[name |-> "X", columns |-> {"id"}]},
        I \in SUBSET {"X"},
        F \in SUBSET {"X"},
        C \in SUBSET {[name |-> "X", values |-> "v"]}}

HelperDialects == {"mysql", "mariadb", "postgresql", "oracle", "sqlite"}

HelperDatabases(context_dialect) ==
    {[tables |-> [n \in {"t"} |-> T], supports_drop_check |-> S, check_wording |-> W] :
        T \in {U \in HelperTables :
                  \/ context_dialect \in {"mysql", "mariadb"}
                  \/ Cardinality(U.primary_key) + Cardinality(U.foreign_keys)
                         + Cardinality(U.checks) <= 1},
        S \in IF context_dialect = "mysql" THEN BOOLEAN ELSE {context_dialect # "mariadb"},
        W \in IF context_dialect = "mysql" THEN {"does not exist", "not found"}
              ELSE {"does not exist"}}

FaultMessages == {{"syntax"}, {"access denied"}}

HelperFaults(positions) ==
    {NoFault} \cup {[at |-> k, message |-> m] : k \in positions, m \in FaultMessages}

HelperInit ==
    /\ dialect \in HelperDialects
    /\ server \in HelperDatabases(dialect)
    /\ statements = <<>>
    /\ ddl_call = <<>>
    /\ pc = "helpers"
    /\ NoAnalysis

\* The call and the one before it.
LastTwo(calls) == IF Len(calls) <= 2 THEN calls ELSE Tail(calls)

HelperCalled(function, arguments, fault, run) ==
    /\ server' = run.server
    /\ statements' = run.log
    /\ ddl_call' = LastTwo(Append(ddl_call,
           [function |-> function, arguments |-> arguments, fault |-> fault,
            began |-> server, raised |-> run.raised]))
    /\ UNCHANGED <<dialect, pc, ddl_rest>>

TryDropConstraint ==
    /\ pc = "helpers"
    /\ \E type_ \in {"None", "foreignkey", "check"} :
       \E fault \in HelperFaults(IF type_ = "None" THEN 1..Len(ProbeStatements) ELSE {1}) :
          HelperCalled("try_drop_constraint", <<"X", "t", type_>>, fault,
                       try_drop_constraint(server, dialect, "X", "t", type_, fault))

TryDropIndex ==
    /\ pc = "helpers"
    /\ \E table_name \in {"None", "t"} :
       \E fault \in HelperFaults({1}) :
          HelperCalled("try_drop_index", <<"X", table_name>>, fault,
                       try_drop_index(server, dialect, "X", table_name, fault))

DropCurrentPrimaryKey ==
    /\ pc = "helpers"
    /\ \E fault \in HelperFaults({1}) :
          HelperCalled("drop_current_primary_key", <<"t">>, fault,
                       drop_current_primary_key(server, dialect, "t", fault))

HelperNext ==
    \/ TryDropConstraint
    \/ TryDropIndex
    \/ DropCurrentPrimaryKey

HelperSpec == HelperInit /\ [][HelperNext]_vars

\* ------------------------------------------- migrate_repo/versions/*.py
MaxMigrations == 3

\* One call made by a migration.
Call(call, table, name, type_, columns) ==
    [call |-> call, table |-> table, name |-> name, type_ |-> type_, columns |-> columns]

\* The call is made with the database as the calls before it left it.
MigrationCall(srv, context_dialect, c) ==
    CASE c.call = "drop_current_primary_key" ->
            drop_current_primary_key(srv, context_dialect, c.table, NoFault)
      [] c.call = "try_drop_constraint" ->
            try_drop_constraint(srv, context_dialect, c.name, c.table, c.type_, NoFault)
      [] c.call = "drop_constraint" ->
            Propagated(op_drop_constraint(HelperRun(srv), NoFault, context_dialect, c.name, c.table, c.type_))
      [] c.call = "create_primary_key" ->
            Propagated(op_execute(HelperRun(srv), NoFault, context_dialect,
                <<"ALTER TABLE ADD PRIMARY KEY", c.table, c.name, c.columns>>))
      [] c.call = "drop_index" ->
            Propagated(op_execute(HelperRun(srv), NoFault, context_dialect,
                <<"DROP INDEX", c.table, c.name>>))
      [] c.call = "add_column" ->
            Propagated(op_execute(HelperRun(srv), NoFault, context_dialect,
                <<"ALTER TABLE ADD COLUMN", c.table, c.name>>))
      [] c.call = "drop_column" ->
            Propagated(op_execute(HelperRun(srv), NoFault, context_dialect,
                <<"ALTER TABLE DROP COLUMN", c.table, c.name>>))
      [] c.call = "create_check_constraint" ->
            Propagated(op_execute(HelperRun(srv), NoFault, context_dialect,
                <<"ALTER TABLE ADD CHECK", c.table, c.name, c.columns>>))

\* The statements of a call are added to those of the calls before it.
AfterCall(run, made) == [made EXCEPT !.log = run.log \o @]

\* The calls of a migration, in order, up to the first that raises.
RECURSIVE RunMigration(_, _, _)
RunMigration(run, context_dialect, calls) ==
    IF calls = <<>> \/ run.raised # NoException THEN run
    ELSE RunMigration(AfterCall(run, MigrationCall(run.server, context_dialect, Head(calls))),
                      context_dialect, Tail(calls))

\* drop_current_primary_key(table) and try_drop_constraint(pk_name, table)
\* for each of the names the primary key has gone by.
RECURSIVE TryDropNames(_, _)
TryDropNames(table, pk_names) ==
    IF pk_names = <<>> THEN <<>>
    ELSE <<Call("try_drop_constraint", table, Head(pk_names), "None", {})>>
             \o TryDropNames(table, Tail(pk_names))

DropPrimaryKeyByAnyName(table, pk_names) ==
    <<Call("drop_current_primary_key", table, "None", "None", {})>>
        \o TryDropNames(table, pk_names)

ContentsColumns == {"scope", "name", "child_scope", "child_name"}

\* bf3baa1c1474: upgrade()
bf3baa1c1474_upgrade(context_dialect) ==
    IF context_dialect \notin {"oracle", "mysql", "postgresql"} THEN <<>>
    ELSE LET guarded == context_dialect \in {"oracle", "postgresql"} IN
         (IF guarded
          THEN DropPrimaryKeyByAnyName("contents_history",
                   <<"CONTENTS_HIST_PK", "contents_history_pk", "contents_history_pkey", "PRIMARY">>)
          ELSE <<Call("drop_constraint", "contents_history", "CONTENTS_HIST_PK", "primary", {})>>)
         \o
         (IF guarded
          THEN DropPrimaryKeyByAnyName("archive_contents_history",
                   <<"ARCH_CONT_HIST_PK", "archive_contents_history_pk",
                     "archive_contents_history_pkey", "PRIMARY">>)
          ELSE <<Call("drop_constraint", "archive_contents_history", "ARCH_CONT_HIST_PK",
                      "primary", {})>>)
         \o
         (IF guarded
          THEN DropPrimaryKeyByAnyName("rules_hist_recent",
                   <<"RULES_HIST_RECENT_PK", "rules_hist_recent_pk", "rules_hist_recent_pkey",
                     "PRIMARY">>)
          ELSE <<Call("drop_constraint", "rules_hist_recent", "RULES_HIST_RECENT_PK",
                      "primary", {})>>)
         \o <<Call("drop_column", "rules_hist_recent", "history_id", "None", {})>>
         \o <<Call("drop_column", "rules_history", "history_id", "None", {})>>

\* bf3baa1c1474: downgrade()
bf3baa1c1474_downgrade(context_dialect) ==
    IF context_dialect \notin {"oracle", "mysql", "postgresql"} THEN <<>>
    ELSE LET guarded == context_dialect \in {"oracle", "postgresql"} IN
         (IF guarded
          THEN DropPrimaryKeyByAnyName("contents_history",
                   <<"CONTENTS_HIST_PK", "contents_history_pk", "contents_history_pkey", "PRIMARY">>)
          ELSE <<>>)
         \o <<Call("create_primary_key", "contents_history", "CONTENTS_HIST_PK", "None",
                   ContentsColumns)>>
         \o
         (IF guarded
          THEN DropPrimaryKeyByAnyName("archive_contents_history",
                   <<"ARCH_CONT_HIST_PK", "archive_contents_history_pk",
                     "archive_contents_history_pkey", "PRIMARY">>)
          ELSE <<>>)
         \o <<Call("create_primary_key", "archive_contents_history", "ARCH_CONT_HIST_PK", "None",
                   ContentsColumns)>>
         \o <<Call("drop_index", "archive_contents_history", "ARCH_CONT_HIST_IDX", "None", {})>>
         \o <<Call("add_column", "rules_hist_recent", "history_id", "None", {})>>
         \o
         (IF guarded
          THEN DropPrimaryKeyByAnyName("rules_hist_recent",
                   <<"RULES_HIST_RECENT_PK", "rules_hist_recent_pk", "rules_hist_recent_pkey",
                     "PRIMARY">>)
          ELSE <<>>)
         \o <<Call("create_primary_key", "rules_hist_recent", "RULES_HIST_RECENT_PK", "None",
                   {"history_id"})>>
         \o <<Call("add_column", "rules_history", "history_id", "None", {})>>
         \o
         (IF guarded
          THEN DropPrimaryKeyByAnyName("rules_history",
                   <<"RULES_HIST_LONGTERM_PK", "rules_history_pk", "rules_history_pkey",
                     "PRIMARY">>)
          ELSE <<>>)
         \o <<Call("create_primary_key", "rules_history", "RULES_HIST_LONGTERM_PK", "None",
                   {"history_id"})>>
         \o
         (IF guarded
          THEN DropPrimaryKeyByAnyName("messages_history",
                   <<"MESSAGES_HIST_ID_PK", "messages_history_pk", "messages_history_pkey",
                     "PRIMARY">>)
          ELSE <<>>)
         \o <<Call("create_primary_key", "messages_history", "MESSAGES_HIST_ID_PK", "None",
                   {"id"})>>

\* d23453595260: the value lists of REQUESTS_STATE_CHK.
old_enum_values == <<"Q", "G", "S", "D", "F", "L", "N", "O", "A", "U", "W", "M">>

new_enum_values == <<"Q", "G", "S", "D", "F", "L", "N", "O", "A", "U", "W", "M", "P">>

\* enum_values_clause(values): the quoted labels, joined by commas.
RECURSIVE enum_values_clause(_)
enum_values_clause(values) ==
    IF values = <<>> THEN <<>>
    ELSE <<"'", Head(values), "'">>
             \o (IF Len(values) > 1 THEN <<", ">> ELSE <<>>)
             \o enum_values_clause(Tail(values))

\* d23453595260: upgrade(), on Oracle and on MySQL.
d23453595260_upgrade(context_dialect, server_version) ==
    IF context_dialect = "oracle"
    THEN <<Call("try_drop_constraint", "requests", "REQUESTS_STATE_CHK", "None", {}),
           Call("create_check_constraint", "requests", "REQUESTS_STATE_CHK", "None",
                enum_values_clause(new_enum_values))>>
    ELSE IF context_dialect = "mysql"
    THEN (IF server_version = 8
          THEN <<Call("drop_constraint", "requests", "REQUESTS_STATE_CHK", "check", {})>>
          ELSE <<>>)
         \o <<Call("create_check_constraint", "requests", "REQUESTS_STATE_CHK", "None",
                   enum_values_clause(new_enum_values))>>
    ELSE <<>>

\* d23453595260: downgrade(), on Oracle and on MySQL.
d23453595260_downgrade(context_dialect, server_version) ==
    IF context_dialect = "oracle"
    THEN <<Call("try_drop_constraint", "requests", "REQUESTS_STATE_CHK", "None", {}),
           Call("create_check_constraint", "requests", "REQUESTS_STATE_CHK", "None",
                enum_values_clause(old_enum_values))>>
    ELSE IF context_dialect = "mysql"
    THEN <<Call("create_check_constraint", "requests", "REQUESTS_STATE_CHK", "None",
                enum_values_clause(old_enum_values))>>
         \o (IF server_version = 8
             THEN <<Call("drop_constraint", "requests", "REQUESTS_STATE_CHK", "check", {})>>
             ELSE <<>>)
    ELSE <<>>

\* The history tables before bf3baa1c1474: each primary key and the index
\* ARCH_CONT_HIST_IDX may or may not be there, and so may history_id.
KeyOrNone(name, columns) == {{}, {[name |-> name, columns |-> columns]}}

HistoryTables ==
    {[contents_history |-> [PlainTable(ContentsColumns) EXCEPT !.primary_key = k1],
      archive_contents_history |->
          [PlainTable(ContentsColumns) EXCEPT !.primary_key = k2, !.indexes = ix],
      rules_hist_recent |-> [PlainTable({"id"} \cup h3) EXCEPT !.primary_key = k3],
      rules_history |-> [PlainTable({"id"} \cup h4) EXCEPT !.primary_key = k4],
      messages_history |-> [PlainTable({"id"}) EXCEPT !.primary_key = k5]] :
        k1 \in KeyOrNone("CONTENTS_HIST_PK", ContentsColumns),
        k2 \in KeyOrNone("ARCH_CONT_HIST_PK", ContentsColumns),
        ix \in SUBSET {"ARCH_CONT_HIST_IDX"},
        h3 \in SUBSET {"history_id"},
        k3 \in KeyOrNone("RULES_HIST_RECENT_PK", {"history_id"}),
        h4 \in SUBSET {"history_id"},
        k4 \in KeyOrNone("RULES_HIST_LONGTERM_PK", {"history_id"}),
        k5 \in KeyOrNone("MESSAGES_HIST_ID_PK", {"id"})}

HistoryDatabases ==
    {[tables |-> T, supports_drop_check |-> TRUE, check_wording |-> "does not exist",
      server_version |-> 8] :
        T \in {U \in HistoryTables :
                  /\ U.rules_hist_recent.primary_key # {}
                        => "history_id" \in U.rules_hist_recent.columns
                  /\ U.rules_history.primary_key # {}
                        => "history_id" \in U.rules_history.columns}}

\* The requests table before d23453595260.
RequestsDatabases ==
    {[tables |-> [n \in {"requests"} |-> [PlainTable({"id", "state"}) EXCEPT !.checks = C]],
      supports_drop_check |-> TRUE, check_wording |-> "does not exist",
      server_version |-> v] :
        C \in SUBSET {[name |-> "REQUESTS_STATE_CHK",
                       values |-> enum_values_clause(old_enum_values)]},
        v \in {0, 5, 8}}

\* pc is the revision the database is at.
RevisionInit ==
    /\ \/ /\ pc = "9eb936a81eb1"
          /\ dialect \in {"mysql", "postgresql", "oracle", "sqlite"}
          /\ server \in HistoryDatabases
       \/ /\ pc = "8ea9122275b1"
          /\ dialect \in {"mysql", "oracle"}
          /\ server \in RequestsDatabases
    /\ statements = <<>>
    /\ ddl_call = <<>>
    /\ NoAnalysis

\* env.py runs a migration inside context.begin_transaction(): where DDL is
\* transactional a migration that raises leaves the database as it was.
MigrationRan(function, revision, destination, run) ==
    /\ server' = IF run.raised # NoException /\ dialect \in {"postgresql", "sqlite"}
                 THEN server
                 ELSE run.server
    /\ statements' = run.log
    /\ ddl_call' = Append(ddl_call,
           [function |-> function, arguments |-> <<revision>>, fault |-> NoFault,
            began |-> server, raised |-> run.raised])
    /\ pc' = IF run.raised # NoException THEN pc ELSE destination
    /\ UNCHANGED <<dialect, ddl_rest>>

Migrated(function, revision, destination, calls) ==
    /\ Len(ddl_call) < MaxMigrations
    /\ ddl_call # <<>> => ddl_call[Len(ddl_call)].raised = NoException
    /\ MigrationRan(function, revision, destination,
                    RunMigration(HelperRun(server), dialect, calls))

Upgrade_bf3baa1c1474 ==
    /\ pc = "9eb936a81eb1"
    /\ Migrated("upgrade", "bf3baa1c1474", "bf3baa1c1474", bf3baa1c1474_upgrade(dialect))

Downgrade_bf3baa1c1474 ==
    /\ pc = "bf3baa1c1474"
    /\ Migrated("downgrade", "bf3baa1c1474", "9eb936a81eb1", bf3baa1c1474_downgrade(dialect))

Upgrade_d23453595260 ==
    /\ pc = "8ea9122275b1"
    /\ Migrated("upgrade", "d23453595260", "d23453595260",
                d23453595260_upgrade(dialect, server.server_version))

Downgrade_d23453595260 ==
    /\ pc = "d23453595260"
    /\ Migrated("downgrade", "d23453595260", "8ea9122275b1",
                d23453595260_downgrade(dialect, server.server_version))

RevisionNext ==
    \/ Upgrade_bf3baa1c1474
    \/ Downgrade_bf3baa1c1474
    \/ Upgrade_d23453595260
    \/ Downgrade_d23453595260

RevisionSpec == RevisionInit /\ [][RevisionNext]_vars

\* ===================================================== properties
\* Calls recorded in the trace.
IsCommand(e) == e[1] = "upgrade" \/ e[1] = "downgrade"

IsDestructive(e) == e[1] = "reset" \/ IsCommand(e)

ExecCalls(t) == SelectSeq(t, IsCommand)

\* The revision the database was moved to by the last reset, upgrade or
\* downgrade before position i of the trace.
RECURSIVE MovedTo(_)
MovedTo(i) ==
    IF i = 0 THEN _BASE_REVISION
    ELSE IF trace[i][1] = "reset" THEN _BASE_REVISION
    ELSE IF IsCommand(trace[i])
         THEN (IF trace[i][2] = "base" THEN _BASE_REVISION
               ELSE IF trace[i][2] = "head" THEN linear_order[Len(linear_order)]
               ELSE trace[i][2])
    ELSE MovedTo(i - 1)

FlagPositions == {i \in 1..Len(trace) : trace[i][1] = "flag"}

\* Properties of the repository, stated on the declared down_revisions.
DeclaredChildren(r) == {c \in script.revs : r \in script.down[c]}

RECURSIVE Descendants(_)
Descendants(S) ==
    LET next == S \cup UNION {DeclaredChildren(r) : r \in S} IN
    IF next = S THEN S ELSE Descendants(next)

HasManyHeads == Cardinality({r \in script.revs : DeclaredChildren(r) = {}}) > 1

HasManyChildren == \E r \in script.revs : Cardinality(DeclaredChildren(r)) > 1

HasManyRoots == Cardinality({r \in script.revs : script.down[r] = {}}) > 1

HasManyParents == \E r \in script.revs : Cardinality(script.down[r]) > 1

HasCycle == \E r \in script.revs : r \in Descendants(DeclaredChildren(r))

HasUnreachable ==
    Descendants({r \in script.revs : script.down[r] = {}}) # script.revs

SingleCodeHead == {r \in script.revs : DeclaredChildren(r) = {}} = {code_head}

RepositoryKinds ==
    {"multi-head-repository", "multi-branch-repository", "alembicrevision-mismatch"}

\* C1 (as stated): at every evaluation of is_old_db the expected value is
\* false exactly when the revision the database was just moved to is
\* ALEMBIC_REVISION, and true for every other revision, BASE included.
C1_ExpectedFalseExactlyAtCodeHead ==
    \A i \in FlagPositions : (trace[i][3] = FALSE) <=> (MovedTo(i) = code_head)

\* C1 (amended): at every evaluation of is_old_db the expected value is true
\* exactly when the revision the database was just moved to is a concrete
\* revision other than ALEMBIC_REVISION; at ALEMBIC_REVISION and at the
\* synthetic BASE it is false.
C1_ExpectedTrueExactlyOffHeadOffBase ==
    \A i \in FlagPositions :
        (trace[i][3] = TRUE) <=> (MovedTo(i) \notin {_BASE_REVISION, code_head})

\* C1 witness: the flag has been evaluated at BASE, at the code head and at a
\* revision in between.
C1_Witness ==
    /\ \E i \in FlagPositions : MovedTo(i) = _BASE_REVISION /\ i > 3
    /\ \E i \in FlagPositions : MovedTo(i) = code_head
    /\ \E i \in FlagPositions : MovedTo(i) \notin {_BASE_REVISION, code_head}

\* C2 (as stated): once a step of validate_history has detected an issue, no
\* further upgrade or downgrade is executed before it returns.
C2_NoCommandAfterIssue ==
    [][(state_issue # NoIssue \/ edge_issues # <<>> \/ issues # <<>>)
         => ExecCalls(trace') = ExecCalls(trace)]_vars

\* C3: for a repository with several heads, a revision with several children
\* or several parents, a cycle or a revision unreachable from BASE,
\* validate_history returns one issue of a repository-level kind and has
\* executed no reset, upgrade or downgrade.
C3_StructuralIssueBeforeDestructiveStep ==
    (/\ pc = "done"
     /\ \/ HasManyHeads
        \/ HasManyChildren
        \/ HasManyRoots
        \/ HasManyParents
        \/ HasCycle
        \/ HasUnreachable)
    => /\ Len(issues) = 1
       /\ issues[1].kind \in RepositoryKinds
       /\ \A i \in 1..Len(trace) : ~IsDestructive(trace[i])
       /\ db \in {EmptyDb, DirtyDb}

\* C3 witness: a run on a single-headed repository with an unreachable cycle
\* has returned, the leftover objects of the database untouched.
C3_Witness ==
    /\ pc = "done"
    /\ SingleCodeHead
    /\ HasCycle
    /\ HasUnreachable
    /\ Len(issues) = 1
    /\ db = DirtyDb

\* C4 (as stated): whenever some revision has more than one parent or more
\* than one child, the reported issue is of kind multi-branch-repository.
C4_BranchingReportsMultiBranch ==
    (pc = "done" /\ (HasManyParents \/ HasManyChildren))
    => (Len(issues) >= 1 /\ issues[1].kind = "multi-branch-repository")

\* C4 (amended): whenever the repository has exactly one head, that head is
\* ALEMBIC_REVISION, and some revision has more than one parent or more than
\* one child, the reported issue is of kind multi-branch-repository.
C4_BranchingUnderSingleCodeHeadReportsMultiBranch ==
    (pc = "done" /\ SingleCodeHead /\ (HasManyParents \/ HasManyChildren))
    => (Len(issues) = 1 /\ issues[1].kind = "multi-branch-repository")

\* C4 witness: a single-headed repository with a fork that merges again has
\* been rejected.
C4_Witness ==
    /\ pc = "done"
    /\ SingleCodeHead
    /\ HasManyChildren
    /\ HasManyParents
    /\ ~HasCycle
    /\ Len(issues) = 1
    /\ issues[1].kind = "multi-branch-repository"

\* C5 (as stated): a repository with no revisions is valid: no repository
\* issue is reported, the linear order is [BASE], no round trip runs and the
\* run reaches the comparison with the models.
C5_EmptyRepositoryIsValid ==
    (pc = "done" /\ script.revs = {})
    => /\ \A i \in 1..Len(issues) : issues[i].kind \notin RepositoryKinds
       /\ linear_order = <<_BASE_REVISION>>
       /\ ExecCalls(trace) = << <<"upgrade", "head">> >>
       /\ \E i \in 1..Len(trace) : trace[i][1] = "autogen"

\* The five executor calls of one edge, and of the whole walk from edge k on.
ExpectedEdgeCalls(parent, child) ==
    LET target == IF parent = _BASE_REVISION THEN "base" ELSE parent IN
    << <<"upgrade", child>>, <<"downgrade", target>>, <<"upgrade", child>>,
       <<"downgrade", target>>, <<"upgrade", child>> >>

RECURSIVE ExpectedWalkCalls(_, _)
ExpectedWalkCalls(order, k) ==
    IF k > Len(order) THEN <<>>
    ELSE ExpectedEdgeCalls(order[k - 1], order[k]) \o ExpectedWalkCalls(order, k + 1)

IsPrefix(a, b) == Len(a) <= Len(b) /\ SubSeq(b, 1, Len(a)) = a

CommandPositions == SelectSeq([i \in 1..Len(trace) |-> i], LAMBDA i : IsCommand(trace[i]))

ComparePositions == SelectSeq([i \in 1..Len(trace) |-> i], LAMBDA i : trace[i][1] = "compare")

\* The snapshot captured after the third executor call (the re-upgrade) of
\* the edge whose child is linear_order[k].
SnapshotAfterReupgrade(k) ==
    LET call == CommandPositions[5 * (k - 2) + 3]
        at == CHOOSE j \in (call + 1)..Len(trace) :
                  /\ trace[j][1] = "snapshot"
                  /\ \A m \in (call + 1)..(j - 1) : trace[m][1] # "snapshot"
    IN trace[at][2]

NoIssueSoFar == issues = <<>> /\ edge_issues = <<>> /\ state_issue = NoIssue

\* C6: while no issue has been detected the executor calls are, edge by edge
\* from BASE, upgrade(child), downgrade(parent), upgrade(child),
\* downgrade(parent), upgrade(child); the snapshot captured after the third
\* call is the baseline of the child->parent->child comparison and of the
\* next edge's parent->child->parent comparison; and the database is at child
\* when the edge completes.
C6_EdgeCallsAndBaselines ==
    /\ (NoIssueSoFar /\ pc \notin {"verify_markers", "compare_models", "done"} /\ linear_order # <<>>)
       => IsPrefix(ExecCalls(trace), ExpectedWalkCalls(linear_order, 2))
    /\ (pc = "head_upgrade")
       => ExecCalls(trace) = ExpectedWalkCalls(linear_order, 2)
    /\ \A n \in 1..Len(ComparePositions) :
          LET base == trace[ComparePositions[n]][2] IN
          /\ (n % 2 = 0) => base = SnapshotAfterReupgrade((n \div 2) + 1)
          /\ (n % 2 = 1 /\ n >= 3) => base = SnapshotAfterReupgrade((n + 1) \div 2)
    /\ (pc = "edge" /\ child_index > 2)
       => /\ db.version = {linear_order[child_index - 1]}
          /\ ColOf(linear_order[child_index - 1]) \in db.cols

\* C6 witness: a walk over two edges or more has finished without an issue.
C6_Witness ==
    /\ pc = "head_upgrade"
    /\ Len(linear_order) >= 3
    /\ Len(ComparePositions) = 2 * (Len(linear_order) - 1)
    /\ NoIssueSoFar

\* C7 (as stated): when the digest recomputed after a round trip differs from
\* the baseline digest, the validator returns an issue of kind roundtrip, at
\* the first element of the three-step path, carrying both texts and their
\* unified diff.
C7_DigestMismatchReturnsRoundtripIssue ==
    \A n \in 1..Len(ComparePositions) :
        LET base == trace[ComparePositions[n]][2]
            after == trace[ComparePositions[n]][3]
        IN (pc = "done" /\ base.digest # after.digest)
           => /\ Len(issues) = 1
              /\ issues[1].kind = "roundtrip"
              /\ Len(issues[1].path) = 3
              /\ issues[1].at_revision = issues[1].path[1]
              /\ issues[1].fingerprint_before = base.text
              /\ issues[1].fingerprint_after = after.text
              /\ issues[1].fingerprint_diff = _unified_diff(base.text, after.text)

FlagBehaved == \A i \in FlagPositions : trace[i][3] = trace[i][4]

BrokenParent ==
    linear_order[(CHOOSE i \in 1..Len(linear_order) : linear_order[i] = env.broken_rev) - 1]

\* C8 (as stated): when one downgrade leaves the column its upgrade added,
\* everything else being exact and the flag behaving, validate_history
\* returns exactly one issue, of kind roundtrip, for that edge's
\* parent->child->parent path, runs no migration of a later edge, and the
\* first-mismatch line names the key of the leftover column.
C8_LeakyDowngradeReportedAtItsColumn ==
    (pc = "done" /\ env.broken_kind = "leaky_downgrade" /\ FlagBehaved)
    => /\ Len(issues) = 1
       /\ issues[1].kind = "roundtrip"
       /\ issues[1].path = <<_display_revision(BrokenParent), env.broken_rev,
                             _display_revision(BrokenParent)>>
       /\ \A i \in 1..Len(trace) :
             IsCommand(trace[i]) =>
                \A j \in 1..Len(linear_order) :
                   (trace[i][2] = linear_order[j])
                   => j <= (CHOOSE b \in 1..Len(linear_order) : linear_order[b] = env.broken_rev)
       /\ Len(issues[1].detail) = 6
       /\ issues[1].detail[5][1] = "first mismatch"
       /\ issues[1].detail[5][2][1] = ColOf(env.broken_rev)

\* C9 (as stated): when every downgrade exactly undoes its upgrade no round
\* trip drifts: every recomputed digest equals its baseline, the one of the
\* first edge (taken right after the hard reset) included, and no roundtrip
\* issue is reported.
C9_ExactInversesNeverDrift ==
    (env.broken_kind = "none")
    => /\ \A n \in 1..Len(ComparePositions) :
             trace[ComparePositions[n]][2].digest = trace[ComparePositions[n]][3].digest
       /\ \A i \in 1..Len(issues) : issues[i].kind # "roundtrip"

\* C10 (as stated): is_old_db is evaluated after every upgrade and every
\* downgrade, before the next one is executed (and before the run returns).
C10_FlagAfterEveryCommand ==
    \A i \in 1..Len(trace) :
        IsCommand(trace[i])
        => /\ \A j \in (i + 1)..Len(trace) :
                 IsCommand(trace[j]) => \E m \in (i + 1)..(j - 1) : trace[m][1] = "flag"
           /\ (pc = "done") => \E m \in (i + 1)..Len(trace) : trace[m][1] = "flag"

\* ------------------------------------------------------------ head stage
HeadUpgradePositions ==
    {i \in 1..Len(trace) : trace[i][1] = "upgrade" /\ trace[i][2] = "head"}

AutogenPositions == {i \in 1..Len(trace) : trace[i][1] = "autogen"}

MarkerPositions == {i \in 1..Len(trace) : trace[i][1] = "markers"}

RepositoryHeads == {r \in script.revs : DeclaredChildren(r) = {}}

\* C11: when the walk has finished without an issue validate_history runs
\* upgrade("head") exactly once more, after the five calls of every edge, and
\* compares the schema with the models only after it: with matching markers
\* the returned list is empty when there is no operation, and otherwise holds
\* exactly one models-drift issue whose detail carries the operations; the
\* comparison never runs while an edge is unchecked, and an empty list is
\* returned only after the comparison.
C11_HeadUpgradeOnceThenModelComparison ==
    /\ (pc = "head_upgrade") => (NoIssueSoFar /\ HeadUpgradePositions = {})
    /\ (pc \in {"verify_markers", "compare_models"} \/ MarkerPositions # {})
       => /\ Cardinality(HeadUpgradePositions) = 1
          /\ ExecCalls(trace)
               = ExpectedWalkCalls(linear_order, 2) \o << <<"upgrade", "head">> >>
    /\ \A i \in AutogenPositions :
          /\ child_index > Len(linear_order)
          /\ Len(ComparePositions) = 2 * (Len(linear_order) - 1)
          /\ \A j \in HeadUpgradePositions : j < i
          /\ \E j \in MarkerPositions : j < i /\ trace[j][2] = {code_head}
    /\ (pc = "done" /\ AutogenPositions # {})
       => LET result == _autogen_diff_is_empty(db, env.models) IN
          IF result.ok THEN issues = <<>>
          ELSE /\ Len(issues) = 1
               /\ issues[1].kind = "models-drift"
               /\ issues[1].detail[2] = result.diff_text
               /\ result.diff_text # {}
    /\ (pc = "done" /\ issues = <<>>) => AutogenPositions # {}

\* C11 witness: a walk over two edges has finished, the markers matched and
\* the comparison with the models reported operations.
C11_Witness ==
    /\ pc = "done"
    /\ Len(linear_order) >= 3
    /\ AutogenPositions # {}
    /\ Len(issues) = 1
    /\ issues[1].kind = "models-drift"

\* C12 (as stated): when the single head of the repository differs from
\* ALEMBIC_REVISION, validate_history reports an issue of kind
\* revision-marker-mismatch.
C12_HeadMismatchReportsRevisionMarkerMismatch ==
    (pc = "done" /\ Cardinality(RepositoryHeads) = 1 /\ RepositoryHeads # {code_head})
    => \E i \in 1..Len(issues) : issues[i].kind = "revision-marker-mismatch"

\* C12 (amended): when the single head of the repository differs from
\* ALEMBIC_REVISION, validate_history returns exactly one issue, of kind
\* alembicrevision-mismatch, at that head, and nothing has been executed.
C12_HeadMismatchReportsAlembicrevisionMismatch ==
    (pc = "done" /\ Cardinality(RepositoryHeads) = 1 /\ RepositoryHeads # {code_head})
    => /\ Len(issues) = 1
       /\ issues[1].kind = "alembicrevision-mismatch"
       /\ {issues[1].at_revision} = RepositoryHeads
       /\ trace = <<>>

\* C12 witness: a run on a linear repository of two revisions whose head is
\* not ALEMBIC_REVISION has returned.
C12_Witness ==
    /\ pc = "done"
    /\ Cardinality(script.revs) >= 2
    /\ Cardinality(RepositoryHeads) = 1
    /\ RepositoryHeads # {code_head}
    /\ ~HasManyChildren /\ ~HasManyParents /\ ~HasCycle /\ ~HasUnreachable
    /\ Len(issues) = 1

\* C13: when, after the final upgrade to head, the bookkeeping table read by
\* the validator does not hold exactly ALEMBIC_REVISION (no row, another
\* value, or two values), validate_history returns one
\* revision-marker-mismatch issue and has not compared the schema with the
\* models.
C13_VersionTableMismatchStopsBeforeModels ==
    \A i \in MarkerPositions :
        (trace[i][2] # {code_head})
        => /\ pc = "done"
           /\ \E j \in HeadUpgradePositions : j < i
           /\ Len(issues) = 1
           /\ issues[1].kind = "revision-marker-mismatch"
           /\ AutogenPositions = {}

\* C13 witness: the three kinds of mismatch; here the table held two values
\* (the other two are C13_WitnessEmpty and C13_WitnessOther).
C13_Witness ==
    /\ pc = "done"
    /\ \E i \in MarkerPositions : Cardinality(trace[i][2]) = 2

C13_WitnessEmpty ==
    /\ pc = "done"
    /\ \E i \in MarkerPositions : trace[i][2] = {}

C13_WitnessOther ==
    /\ pc = "done"
    /\ \E i \in MarkerPositions : Cardinality(trace[i][2]) = 1 /\ trace[i][2] # {code_head}

\* C14: when the repository has more than one head, validate_history returns
\* exactly one issue, of kind multi-head-repository.
C14_ManyHeadsReportOneMultiHeadIssue ==
    (pc = "done" /\ Cardinality(RepositoryHeads) > 1)
    => /\ Len(issues) = 1
       /\ issues[1].kind = "multi-head-repository"

\* C14 witness: a run on a repository whose two heads fork from one revision
\* has returned.
C14_Witness ==
    /\ pc = "done"
    /\ Cardinality(RepositoryHeads) = 2
    /\ HasManyChildren
    /\ Len(issues) = 1

\* An issue has been detected and validate_history has not returned yet.
IssuePending == pc # "done" /\ (state_issue # NoIssue \/ edge_issues # <<>>)

\* C15 (as stated): the returned list has length 0 or 1, its element is the
\* first issue detected in the run (the first one streamed to the callback),
\* and validate_history returns right after the first issue: the step after
\* its detection is the return.
C15_ReturnsRightAfterFirstIssue ==
    /\ [](Len(issues) <= 1)
    /\ []((pc = "done" /\ has_callback /\ issues # <<>>) => issues[1] = streamed[1])
    /\ [][IssuePending => pc' = "done"]_vars

\* The parts of C15 about the returned list alone.
C15_ListPart ==
    /\ Len(issues) <= 1
    /\ (pc = "done" /\ has_callback /\ issues # <<>>) => issues[1] = streamed[1]
    /\ (pc = "done" /\ has_callback /\ issues = <<>>) => streamed = <<>>

\* ------------------------------------------- tools/check_alembic_history.py
MainEnded == pc = "exit"

ExecutorRaised ==
    \E i \in 1..Len(trace) : trace[i][1] = "raise" /\ trace[i][2] = "executor"

\* The issues built at a fingerprint mismatch, in the order of their detection.
DriftEvents == SelectSeq(trace, LAMBDA e : e[1] = "drift")

ToolAutogenEvents == SelectSeq(trace, LAMBDA e : e[1] = "autogen")

Returns(code) == main_result.outcome = "returned" /\ main_result.code = code

ValidationReturned == validation.outcome = "returned"

\* The default run of the tool returns the first drift it meets; a run with
\* report_all_drift executes the same steps up to that drift.
DefaultRunReturnsFirstDrift ==
    (MainEnded /\ ~report_all_drift /\ ~ExecutorRaised /\ DriftEvents # <<>>)
    => /\ ValidationReturned
       /\ issues = <<DriftEvents[1][2]>>

\* C16 (as stated): on a repository where the default run returns an issue
\* (a round trip drifts), the run with report_all_drift returns a list, and
\* the list holds the issue of the default run and the issue of every later
\* drift.
C16_ContinueModeKeepsDefaultIssues ==
    (MainEnded /\ report_all_drift /\ ~ExecutorRaised /\ DriftEvents # <<>>)
    => /\ ValidationReturned
       /\ \A n \in 1..Len(DriftEvents) :
             \E k \in 1..Len(issues) : issues[k] = DriftEvents[n][2]

\* C17 (as stated): for a repository with at least one revision whose round
\* trips are all lossless and whose schema at head is the one of the models,
\* a run of the tool compares head with the models once per revision, returns
\* an empty list and exits with code 0.
C17_CleanRepositoryExitsZero ==
    (/\ MainEnded
     /\ script.revs # {}
     /\ ~ExecutorRaised
     /\ env.broken_kind = "none"
     /\ env.models = {ColOf(r) : r \in script.revs}
     /\ report_json # "unwritable")
    => /\ ValidationReturned
       /\ issues = <<>>
       /\ Len(ToolAutogenEvents) = Len(topo)
       /\ Returns(0)

\* C18 (as stated): main returns 0 exactly when validate_alembic_history
\* returns an empty list, 1 exactly when it returns a list with an issue, and
\* 2 exactly when it raises.
C18_ExitCodeFollowsValidationOutcome ==
    MainEnded
    => /\ Returns(0) <=> (ValidationReturned /\ issues = <<>>)
       /\ Returns(1) <=> (ValidationReturned /\ issues # <<>>)
       /\ Returns(2) <=> (validation.outcome = "raised")

\* The exit codes of main when no report is asked for or the report file can
\* be written.
ExitCodeWhenReportCanBeWritten ==
    (MainEnded /\ report_json # "unwritable")
    => /\ Returns(0) <=> (ValidationReturned /\ issues = <<>>)
       /\ Returns(1) <=> (ValidationReturned /\ issues # <<>>)
       /\ Returns(2) <=> (validation.outcome = "raised")

\* C19: when the executor or the database raises during a run of the tool,
\* no Issue is made of the failure, main returns 2, no report is written, and
\* main hands out none of the issues collected before the failure.
C19_ExecutorFailureExitsTwoWithoutReport ==
    (MainEnded /\ ExecutorRaised)
    => /\ validation.outcome = "raised"
       /\ Len(issues) = Len(DriftEvents)
       /\ \A k \in 1..Len(issues) : issues[k] = DriftEvents[k][2]
       /\ main_result = [outcome |-> "returned", code |-> 2]
       /\ report = NoReport

\* C19 witness: a run with report_all_drift and a report path had collected a
\* roundtrip issue when the executor raised, and main has ended.
C19_Witness ==
    /\ MainEnded
    /\ ExecutorRaised
    /\ report_all_drift
    /\ report_json = "writable"
    /\ issues # <<>>


\* ---- schema_fingerprint and the order of reflection
BothFingerprinted == pc = "fingerprinted" /\ Len(fingerprints) = 2

\* Two foreign keys of one column that point to the same target column.
ForeignKeyTie(st) ==
    \E f, g \in st.foreign_keys :
        /\ f # g
        /\ f.parent = g.parent
        /\ f.target_table = g.target_table
        /\ f.target_column = g.target_column

PrimaryKeyOf(md, name) ==
    md.tables[CHOOSE t \in 1..Len(md.tables) : md.tables[t].name = name].primary_key

\* C20: two reflections of the same structural schema that enumerate tables,
\* columns, primary-key columns, indexes, constraints and foreign keys in
\* different orders have the same canonical text, the same digest and the
\* same token map.
C20_FingerprintIndependentOfReflectionOrder ==
    BothFingerprinted =>
        /\ fingerprints[1].text = fingerprints[2].text
        /\ fingerprints[1].digest = fingerprints[2].digest
        /\ fingerprints[1].tokens = fingerprints[2].tokens

\* What schema_fingerprint does guarantee: the order of tables, columns,
\* indexes, index columns, unique and check constraints never matters; the
\* snapshots agree whenever the primary-key columns come in the same order and
\* no two foreign keys tie on the sort key.
FingerprintsAgreeWithoutTiesAndPrimaryKeyOrder ==
    (/\ BothFingerprinted
     /\ ~ForeignKeyTie(structure)
     /\ PrimaryKeyOf(reflections[1], "t") = PrimaryKeyOf(reflections[2], "t"))
        => fingerprints[1] = fingerprints[2]

\* The token map alone depends on nothing but the order of tied foreign keys.
TokensAgreeWithoutTies ==
    (BothFingerprinted /\ ~ForeignKeyTie(structure))
        => fingerprints[1].tokens = fingerprints[2].tokens

\* The text depends on the order of the primary-key columns alone when
\* there is no foreign key at all.
TextFollowsPrimaryKeyOrder ==
    (/\ BothFingerprinted
     /\ structure.foreign_keys = {}
     /\ PrimaryKeyOf(reflections[1], "t") # PrimaryKeyOf(reflections[2], "t"))
        => fingerprints[1].text # fingerprints[2].text

\* The token map depends on the order of tied foreign keys of a column.
TokensFollowTiedForeignKeys ==
    (/\ BothFingerprinted
     /\ \E t \in 1..2 : \E c \in 1..Len(reflections[1].tables[t].columns) :
           \E u \in 1..2 : \E d \in 1..Len(reflections[2].tables[u].columns) :
              /\ reflections[1].tables[t].name = reflections[2].tables[u].name
              /\ reflections[1].tables[t].columns[c].name = reflections[2].tables[u].columns[d].name
              /\ Len(reflections[1].tables[t].columns[c].foreign_keys) = 2
              /\ reflections[1].tables[t].columns[c].foreign_keys
                    # reflections[2].tables[u].columns[d].foreign_keys)
        => fingerprints[1].tokens # fingerprints[2].tokens


\* ---- two snapshots of two structural states
SnapshotsCompared == pc = "compared" /\ Len(fingerprints) = 2

IndexAttributes == {"name", "unique", "method", "ops", "where"}

IndexAttribute(idx, attribute) ==
    CASE attribute = "name" -> <<idx.name>>
      [] attribute = "unique" -> <<idx.unique>>
      [] attribute = "method" -> <<idx.method>>
      [] attribute = "ops" -> <<idx.ops>>
      [] attribute = "where" -> <<idx.where>>

\* The two structural states differ in nothing but one attribute of the
\* index on column a, and that attribute is one of attributes.
DifferOnlyInIndexAttribute(attributes) ==
    /\ [structure[1] EXCEPT !.indexes = {}] = [structure[2] EXCEPT !.indexes = {}]
    /\ \E x \in structure[1].indexes : \E y \in structure[2].indexes :
          \E attribute \in attributes :
             /\ IndexAttribute(x, attribute) # IndexAttribute(y, attribute)
             /\ \A other \in IndexAttributes \ {attribute} :
                   IndexAttribute(x, other) = IndexAttribute(y, other)

\* C21: two schemas that differ only in an attribute of an index referencing
\* a column (name, uniqueness, method, operator class or predicate) have
\* different canonical texts and different digests.
C21_IndexAttributeChangesTextAndDigest ==
    (SnapshotsCompared /\ DifferOnlyInIndexAttribute(IndexAttributes))
        => /\ fingerprints[1].text # fingerprints[2].text
           /\ fingerprints[1].digest # fingerprints[2].digest

\* What holds: the uniqueness of an index is part of the text; its name,
\* method, operator class and predicate are part of the token map alone.
UniquenessChangesTextAndDigest ==
    (SnapshotsCompared /\ DifferOnlyInIndexAttribute({"unique"}))
        => /\ fingerprints[1].text # fingerprints[2].text
           /\ fingerprints[1].digest # fingerprints[2].digest

OtherIndexAttributesLeaveTextAndDigest ==
    (SnapshotsCompared /\ DifferOnlyInIndexAttribute(IndexAttributes \ {"unique"}))
        => /\ fingerprints[1].text = fingerprints[2].text
           /\ fingerprints[1].digest = fingerprints[2].digest

IndexAttributeChangesTokens ==
    (SnapshotsCompared /\ DifferOnlyInIndexAttribute(IndexAttributes))
        => fingerprints[1].tokens # fingerprints[2].tokens


\* ---- _first_token_mismatch
KeyRank(key) == CHOOSE i \in 1..Len(SortedTokenKeys) : SortedTokenKeys[i] = key

MismatchReturned == pc = "mismatch_returned" /\ first_mismatch.outcome = "returned"

\* C22: _first_token_mismatch(before, after) returns None exactly when the
\* two maps are equal; otherwise it describes the smallest key, in sorted
\* order over the union of both key sets, whose token differs, a key that
\* only one map has counting as differing and showing None on the other side.
C22_FirstMismatchIsSmallestDifferingKey ==
    MismatchReturned =>
        LET before == fingerprints[1].tokens
            after == fingerprints[2].tokens
            union == (DOMAIN before) \cup (DOMAIN after)
            v == first_mismatch.value
            agree(k) == /\ k \in DOMAIN before
                        /\ k \in DOMAIN after
                        /\ before[k] = after[k]
        IN /\ (v = None) <=> (before = after)
           /\ v # None =>
                 /\ v[1] \in union
                 /\ ~agree(v[1])
                 /\ \A k \in union : KeyRank(k) < KeyRank(v[1]) => agree(k)
                 /\ v[2] = (IF v[1] \in DOMAIN before THEN before[v[1]] ELSE None)
                 /\ v[3] = (IF v[1] \in DOMAIN after THEN after[v[1]] ELSE None)

\* A key that only the second map has is the first mismatch, below a key
\* whose tokens differ.
C22_Witness ==
    /\ MismatchReturned
    /\ first_mismatch.value # None
    /\ first_mismatch.value[1] \notin DOMAIN fingerprints[1].tokens
    /\ first_mismatch.value[2] = None
    /\ \E k \in (DOMAIN fingerprints[1].tokens) \cap (DOMAIN fingerprints[2].tokens) :
          /\ KeyRank(first_mismatch.value[1]) < KeyRank(k)
          /\ fingerprints[1].tokens[k] # fingerprints[2].tokens[k]

C22_WitnessEqual ==
    /\ MismatchReturned
    /\ first_mismatch.value = None
    /\ DOMAIN fingerprints[1].tokens = MismatchKeys


\* ---- model comparison and canonical texts
ModelComparisonDone == pc = "done" /\ AutogenPositions # {}

NoModelsDrift == \A i \in 1..Len(issues) : issues[i].kind # "models-drift"

\* C23: once all revisions are applied, the model comparison reports no
\* models-drift issue if and only if the canonical text of the live schema
\* equals the canonical text of the schema the declarative model describes.
C23_NoDriftIffCanonicalTextsEqual ==
    pc = "models_compared" =>
        (NoModelsDrift <=>
            schema_fingerprint_reflected(reflections[1]).text
               = schema_fingerprint_reflected(reflections[2]).text)

\* What holds for schemas that differ in the presence of columns alone, as
\* in the runs of validate_history over column-adding revisions: no issue is
\* reported exactly when the tables other than the bookkeeping table have
\* the canonical text of the models.
NoDriftIffColumnTextsEqual ==
    ModelComparisonDone =>
        (NoModelsDrift <=>
            schema_fingerprint(db.cols \ {VersionKey}).text
               = schema_fingerprint(env.models \ {VersionKey}).text)

\* A CHECK constraint the models do not declare changes the text and is no
\* drift; a renamed index is a drift and leaves the text alone.
CheckConstraintIsNoDrift ==
    (/\ pc = "models_compared"
     /\ [structure[1] EXCEPT !.checks = {}] = [structure[2] EXCEPT !.checks = {}])
        => NoModelsDrift

IndexRenameIsDrift ==
    (pc = "models_compared" /\ DifferOnlyInIndexAttribute({"name"})) => ~NoModelsDrift


\* ---- _build_linear_revision_order
BuildReturned == pc = "build_returned" /\ build_result.outcome = "returned"

\* The graph in hand is the one discovered from the repository.
Discovered == revision_graph = _discover_revision_graph(script)

\* The step-by-step builder returns what _build_linear_revision_order, as
\* validate_history calls it, can return.
BuilderAgreesWithFunction ==
    (BuildReturned /\ Discovered)
        => [order |-> build_result.order, issue |-> build_result.issue]
              \in _build_linear_revision_order(revision_graph.topo, revision_graph.parents,
                                               revision_graph.children)

\* C24: _build_linear_revision_order returns either a non-empty order and no
\* issue, or an empty list and an issue; a returned order starts with BASE,
\* holds every discovered revision exactly once, and each later element is a
\* child of the element before it.
C24_OrderOrIssueAndOrderIsTheChain ==
    BuildReturned =>
        LET order == build_result.order
            issue == build_result.issue
        IN /\ \/ order # <<>> /\ issue = NoIssue
              \/ order = <<>> /\ issue # NoIssue
           /\ issue = NoIssue =>
                 /\ order[1] = _BASE_REVISION
                 /\ {order[k] : k \in 1..Len(order)} = revision_graph.topo
                 /\ \A j, k \in 1..Len(order) : order[j] = order[k] => j = k
                 /\ \A k \in 2..Len(order) : order[k] \in revision_graph.children[order[k - 1]]

\* A chain of two revisions discovered from a repository is returned.
C24_Witness ==
    /\ BuildReturned
    /\ Discovered
    /\ build_result.issue = NoIssue
    /\ Len(build_result.order) = 3

\* C25: for a repository whose revision graph contains a cycle,
\* _discover_revision_graph followed by _build_linear_revision_order returns
\* an issue of kind multi-branch-repository and no linear order.
C25_CycleGivesMultiBranchIssue ==
    (BuildReturned /\ Discovered /\ HasCycle)
        => /\ build_result.issue # NoIssue
           /\ build_result.issue.kind = "multi-branch-repository"
           /\ build_result.order = <<>>

\* A repository whose two revisions name each other has been handled.
C25_Witness ==
    /\ BuildReturned
    /\ Discovered
    /\ HasCycle
    /\ ~HasManyParents
    /\ Cardinality(script.revs) = 2

\* C26: the walk of _build_linear_revision_order ends for every
\* parents/children map, cycles and self-loops included: each turn of the
\* loop either leaves the loop or adds a revision that was not yet visited.
C26_WalkTerminates ==
    /\ [][(pc = "build_walk" /\ pc' = "build_walk")
             => \E child \in ChildrenOf(build_current) \ build_visited :
                   build_visited' = build_visited \cup {child}]_vars
    /\ (pc = "build_walk") ~> (pc # "build_walk")
    /\ <>(pc = "build_returned")

\* The walk met a revision it had visited, on a map with a cycle.
C26_Witness ==
    /\ BuildReturned
    /\ build_result.issue # NoIssue
    /\ build_result.issue.path[2] = "cycle"
    /\ Len(build_order) >= 2

\* C27: when the builder returns the issue "unable to produce an ordering
\* covering every revision", the unreached revisions it names are not
\* empty: visited is a strict subset of the discovered revisions.
C27_LinearOrderIssueNamesUnreached ==
    (/\ BuildReturned
     /\ build_result.issue # NoIssue
     /\ build_result.issue.path = <<"repository", "linear-order">>)
        => /\ build_result.issue.detail[2] # {}
           /\ build_result.issue.detail[2] = revision_graph.topo \ build_visited
           /\ build_visited \subseteq revision_graph.topo
           /\ build_visited # revision_graph.topo

\* The linear-order issue for a discovered graph with two unreached revisions.
C27_Witness ==
    /\ BuildReturned
    /\ Discovered
    /\ build_result.issue # NoIssue
    /\ build_result.issue.path = <<"repository", "linear-order">>
    /\ Cardinality(build_result.issue.detail[2]) = 2


\* ---- issue_callback and the returned list
Deliveries(issue) == Cardinality({j \in 1..Len(streamed) : streamed[j] = issue})

\* C28: with an issue_callback, every issue validate_history returns has
\* been delivered to the callback exactly once.
C28_ReturnedIssuesDeliveredOnce ==
    (pc = "done" /\ has_callback)
        => \A i \in 1..Len(issues) : Deliveries(issues[i]) = 1

\* A roundtrip issue, built and delivered inside _verify_roundtrip and handed
\* up through _check_linear_revision_edge, is returned.
C28_Witness ==
    /\ pc = "done"
    /\ has_callback
    /\ Len(issues) = 1
    /\ issues[1].kind = "roundtrip"
    /\ Deliveries(issues[1]) = 1

\* C29: every issue delivered to issue_callback during a run is in the list
\* the run returns.
C29_DeliveredIssuesAreReturned ==
    pc = "done"
        => \A j \in 1..Len(streamed) : \E i \in 1..Len(issues) : issues[i] = streamed[j]

\* What holds: the first delivered issue is the returned one; a later one
\* exists only after an is_old_db issue of the upgrade that stays.
FirstDeliveredIssueIsReturned ==
    (pc = "done" /\ has_callback)
        => /\ Len(streamed) = Len(issues) \/ Len(streamed) = Len(issues) + 1
           /\ \A i \in 1..Len(issues) : streamed[i] = issues[i]
           /\ Len(streamed) > Len(issues) => issues[1].kind = "is-old-db"


\* ---- roundtrip issues and the first mismatch line
HasFirstMismatchLine(issue) ==
    /\ Len(issue.detail) = 6
    /\ issue.detail[5][1] = "first mismatch"

\* C30: whenever a roundtrip issue is produced (the two digests differ), the
\* token maps of the two snapshots differ too, and the detail of the issue
\* has a "first mismatch" line naming a differing key.
C30_RoundtripIssueHasFirstMismatch ==
    (SnapshotsCompared /\ fingerprints[1].digest # fingerprints[2].digest)
        => /\ Len(edge_issues) = 1
           /\ edge_issues[1].kind = "roundtrip"
           /\ fingerprints[1].tokens # fingerprints[2].tokens
           /\ HasFirstMismatchLine(edge_issues[1])
           /\ LET key == edge_issues[1].detail[5][2][1] IN
              TokenGet(fingerprints[1].tokens, key) # TokenGet(fingerprints[2].tokens, key)

\* What holds: the line is there, and names a differing key, whenever the two
\* states differ in more than their CHECK constraints; CHECK constraints are
\* in the text and in no token.
FirstMismatchUnlessOnlyChecksDiffer ==
    (/\ SnapshotsCompared
     /\ fingerprints[1].digest # fingerprints[2].digest
     /\ [structure[1] EXCEPT !.checks = {}] # [structure[2] EXCEPT !.checks = {}])
        => /\ HasFirstMismatchLine(edge_issues[1])
           /\ LET key == edge_issues[1].detail[5][2][1] IN
              TokenGet(fingerprints[1].tokens, key) # TokenGet(fingerprints[2].tokens, key)

ChecksAloneLeaveTokens ==
    (/\ SnapshotsCompared
     /\ structure[1].checks # structure[2].checks
     /\ [structure[1] EXCEPT !.checks = {}] = [structure[2] EXCEPT !.checks = {}])
        => /\ fingerprints[1].digest # fingerprints[2].digest
           /\ fingerprints[1].tokens = fingerprints[2].tokens
           /\ Len(edge_issues) = 1
           /\ ~HasFirstMismatchLine(edge_issues[1])

\* In the runs of validate_history over column-adding revisions every
\* roundtrip issue has the line.
ColumnDriftHasFirstMismatch ==
    \A i \in 1..Len(issues) :
        issues[i].kind = "roundtrip" => HasFirstMismatchLine(issues[i])


\* ---- _drop_everything
Dropped == pc = "dropped"

Sent(sql) == {i \in 1..Len(statements) : statements[i].sql = sql}

IsDrop(i) == statements[i].sql[1] \in {"DROP TABLE IF EXISTS", "DROP TABLE", "DROP TYPE IF EXISTS"}

C31_WitnessReturn ==
    /\ Dropped
    /\ dialect = "mysql"
    /\ ddl_call[1].raised = NoException
    /\ \E i \in 1..Len(statements) : statements[i].sql[1] = "DROP TABLE" /\ statements[i].ok
    /\ server.foreign_key_checks

\* Other dialects never see a FOREIGN_KEY_CHECKS statement, and a rollback
\* on PostgreSQL leaves the tables that were there.
OnlyMySQLTogglesForeignKeyChecks ==
    (Dropped /\ dialect # "mysql") =>
        /\ Sent(<<"SET FOREIGN_KEY_CHECKS=0">>) = {}
        /\ Sent(<<"SET FOREIGN_KEY_CHECKS=1">>) = {}
        /\ (ddl_call[1].raised # NoException => server.tables = ddl_call[1].began.tables)


\* ---- try_drop_constraint, try_drop_index, drop_current_primary_key
HelperCalledLast(function) ==
    /\ pc = "helpers"
    /\ ddl_call # <<>>
    /\ ddl_call[Len(ddl_call)].function = function

LastCall == ddl_call[Len(ddl_call)]

ProbeOrder ==
    <<"ALTER TABLE DROP FOREIGN KEY", "ALTER TABLE DROP INDEX", "ALTER TABLE DROP CHECK">>

RecognisedMissing(message) ==
    \E token \in {"doesn't exist", "does not exist", "unknown constraint", "unknown index",
                  "unknown key", "check that column/key exists", "check that it exists",
                  "can't drop foreign key", "can't drop constraint"} : token \in message

ProbeCalled ==
    /\ HelperCalledLast("try_drop_constraint")
    /\ LastCall.arguments[3] = "None"
    /\ dialect \in {"mysql", "mariadb"}

\* C32: on MySQL/MariaDB without type_, try_drop_constraint tries DROP
\* FOREIGN KEY, DROP INDEX, DROP CHECK in that order; nothing is sent after
\* the first statement that succeeds; a recognised "missing" error moves on
\* to the next statement; any other error raises RuntimeError at once, but a
\* syntax error of DROP CHECK is tolerated; three "missing" answers make the
\* call return normally.
C32_ProbeOrderAndErrors ==
    ProbeCalled =>
        LET n == Len(statements)
            last == statements[n]
        IN
        /\ n \in 1..3
        /\ \A i \in 1..n : statements[i].sql = <<ProbeOrder[i], "t", "X">>
        /\ \A i \in 1..(n - 1) : ~statements[i].ok /\ RecognisedMissing(statements[i].message)
        /\ IF last.ok THEN LastCall.raised = NoException
           ELSE IF RecognisedMissing(last.message) \/ (n = 3 /\ "syntax" \in last.message)
           THEN n = 3 /\ LastCall.raised = NoException
           ELSE LastCall.raised = [type |-> "RuntimeError"]

\* All three statements answered "missing": the call returns normally.
C32_Witness ==
    /\ ProbeCalled
    /\ Len(statements) = 3
    /\ \A i \in 1..3 : RecognisedMissing(statements[i].message)
    /\ LastCall.raised = NoException

\* DROP INDEX succeeded after DROP FOREIGN KEY reported "missing".
C32_WitnessSecond ==
    /\ ProbeCalled
    /\ Len(statements) = 2
    /\ statements[2].ok

\* A syntax error of DROP CHECK is tolerated, one of DROP INDEX is not.
C32_WitnessSyntax ==
    /\ ProbeCalled
    /\ Len(statements) = 3
    /\ "syntax" \in statements[3].message
    /\ LastCall.raised = NoException

C32_WitnessRuntimeError ==
    /\ ProbeCalled
    /\ Len(statements) = 2
    /\ "syntax" \in statements[2].message
    /\ LastCall.raised = [type |-> "RuntimeError"]

\* The same helper was called twice with the same arguments, the first call
\* returned, and the server rejects nothing for reasons of its own.
CalledTwice ==
    /\ pc = "helpers"
    /\ Len(ddl_call) = 2
    /\ ddl_call[1].function = ddl_call[2].function
    /\ ddl_call[1].arguments = ddl_call[2].arguments
    /\ ddl_call[1].fault = NoFault
    /\ ddl_call[2].fault = NoFault
    /\ ddl_call[1].raised = NoException

SecondCallIsNoOp ==
    /\ ddl_call[2].raised = NoException
    /\ server = ddl_call[2].began

\* C33: try_drop_constraint, try_drop_index and drop_current_primary_key are
\* idempotent: a second call with the same arguments, the object being gone,
\* raises nothing and leaves the schema as the first call left it.
C33_HelpersAreIdempotent == CalledTwice => SecondCallIsNoOp

\* What holds: the second call is a no-op except in the probe of
\* try_drop_constraint on MySQL/MariaDB, and except where the server words a
\* missing check constraint in a way the helper does not recognise.
IdempotentOutsideTheProbe ==
    (/\ CalledTwice
     /\ ~(/\ ddl_call[2].function = "try_drop_constraint"
          /\ dialect \in {"mysql", "mariadb"}
          /\ ddl_call[2].arguments[3] = "None")
     /\ server.check_wording = "does not exist")
        => SecondCallIsNoOp

\* The probe drops the foreign key X on the first call and the index X on
\* the second.
ProbeDropsAnotherObject ==
    /\ CalledTwice
    /\ ddl_call[2].function = "try_drop_constraint"
    /\ "X" \in ddl_call[1].began.tables["t"].foreign_keys
    /\ "X" \in ddl_call[2].began.tables["t"].indexes
    /\ "X" \notin server.tables["t"].indexes

SupportedDialects == {"mysql", "mariadb", "postgresql", "oracle"}

HelperWasCalled == pc = "helpers" /\ ddl_call # <<>>

\* C34: on a backend outside MySQL/MariaDB, PostgreSQL and Oracle each of
\* the three helpers sends no DDL, leaves the schema unchanged and does not
\* raise.
C34_UnsupportedBackendIsNoOp ==
    (HelperWasCalled /\ dialect \notin SupportedDialects) =>
        /\ statements = <<>>
        /\ server = LastCall.began
        /\ LastCall.raised = NoException

\* What holds: drop_current_primary_key is the no-op there.
UnsupportedBackendKeepsPrimaryKey ==
    (HelperCalledLast("drop_current_primary_key") /\ dialect \notin SupportedDialects) =>
        /\ statements = <<>>
        /\ server = LastCall.began
        /\ LastCall.raised = NoException

\* try_drop_index drops the index on SQLite.
UnsupportedBackendDropsIndex ==
    /\ HelperCalledLast("try_drop_index")
    /\ dialect \notin SupportedDialects
    /\ "X" \in LastCall.began.tables["t"].indexes
    /\ "X" \notin server.tables["t"].indexes

\* C35: on MySQL/MariaDB try_drop_index without a table_name raises
\* ValueError before any statement is sent, so the schema is unchanged.
C35_IndexDropNeedsTableOnMySQL ==
    (/\ HelperCalledLast("try_drop_index")
     /\ dialect \in {"mysql", "mariadb"}
     /\ LastCall.arguments[2] = "None") =>
        /\ LastCall.raised = [type |-> "ValueError"]
        /\ statements = <<>>
        /\ server = LastCall.began

\* The call was made on MariaDB while the index X was there.
C35_Witness ==
    /\ HelperCalledLast("try_drop_index")
    /\ dialect = "mariadb"
    /\ LastCall.arguments[2] = "None"
    /\ "X" \in server.tables["t"].indexes
    /\ LastCall.raised = [type |-> "ValueError"]


\* ---- round trips of single revisions
\* Columns, primary key and indexes of every table.
SchemaOf(srv) ==
    [n \in DOMAIN srv.tables |->
        [columns |-> srv.tables[n].columns,
         primary_key |-> srv.tables[n].primary_key,
         indexes |-> srv.tables[n].indexes]]

\* The database after the i-th migration of the run.
AfterMigration(i) == IF i < Len(ddl_call) THEN ddl_call[i + 1].began ELSE server

AtHistoryRevision == pc \in {"9eb936a81eb1", "bf3baa1c1474"}

\* The i-th migration started from a state that the migration before it had
\* produced, and the next one undoes it without loss.
LosslessFrom(i) ==
    /\ ddl_call[i + 1].raised = NoException
    /\ SchemaOf(AfterMigration(i + 1)) = SchemaOf(ddl_call[i].began)

\* The parent revision as the downgrade rebuilds it: every history table has
\* its primary key.
HasAllKeys(srv) == \A n \in DOMAIN srv.tables : srv.tables[n].primary_key # {}

\* C36: bf3baa1c1474 is a lossless round trip on MySQL, PostgreSQL and
\* Oracle: from the parent, upgrade then downgrade restores columns, primary
\* keys and indexes of the history tables; from the revision, downgrade then
\* upgrade restores them too.
C36_HistoryTablesRoundTrip ==
    (/\ AtHistoryRevision
     /\ dialect \in {"mysql", "postgresql", "oracle"}
     /\ ddl_call # <<>>
     /\ HasAllKeys(ddl_call[1].began)) =>
        /\ (Len(ddl_call) >= 2 /\ ddl_call[1].raised = NoException) => LosslessFrom(1)
        /\ (Len(ddl_call) >= 3 /\ ddl_call[1].raised = NoException
               /\ ddl_call[2].raised = NoException) => LosslessFrom(2)

\* What holds: when both migrations of a round trip succeed, the tables
\* contents_history, rules_hist_recent and rules_history are as they were,
\* if they had their primary key.
RestoredTables == {"contents_history", "rules_hist_recent", "rules_history"}

ThreeTablesRoundTrip ==
    (/\ AtHistoryRevision
     /\ Len(ddl_call) >= 2
     /\ ddl_call[1].raised = NoException
     /\ ddl_call[2].raised = NoException) =>
        \A n \in RestoredTables :
            ddl_call[1].began.tables[n].primary_key # {} =>
                SchemaOf(AfterMigration(2))[n] = SchemaOf(ddl_call[1].began)[n]

\* The downgrade drops ARCH_CONT_HIST_IDX, which the upgrade never creates,
\* and creates MESSAGES_HIST_ID_PK, which the upgrade never drops.
DowngradeIsNotTheInverse ==
    (/\ AtHistoryRevision
     /\ dialect \in {"mysql", "postgresql", "oracle"}
     /\ Len(ddl_call) >= 2
     /\ ddl_call[1].raised = NoException) =>
        \/ ddl_call[2].raised # NoException
        \/ /\ "ARCH_CONT_HIST_IDX" \in ddl_call[1].began.tables["archive_contents_history"].indexes
           /\ AfterMigration(2).tables["archive_contents_history"].indexes = {}
           /\ AfterMigration(2).tables["messages_history"].primary_key # {}

\* On a dialect the revision does not name, both migrations do nothing.
UnnamedDialectIsUntouched ==
    (AtHistoryRevision /\ dialect = "sqlite") =>
        /\ statements = <<>>
        /\ ddl_call # <<>> => server = ddl_call[1].began

RequestsRoundTrip ==
    /\ pc \in {"8ea9122275b1", "d23453595260"}
    /\ Len(ddl_call) >= 2
    /\ ddl_call[1].raised = NoException

OldStateCheck ==
    {[name |-> "REQUESTS_STATE_CHK",
      values |-> <<"'", "Q", "'", ", ", "'", "G", "'", ", ", "'", "S", "'", ", ",
                   "'", "D", "'", ", ", "'", "F", "'", ", ", "'", "L", "'", ", ",
                   "'", "N", "'", ", ", "'", "O", "'", ", ", "'", "A", "'", ", ",
                   "'", "U", "'", ", ", "'", "W", "'", ", ", "'", "M", "'">>]}

\* C37: d23453595260 on MySQL 8 is a lossless round trip: after upgrade and
\* downgrade the requests table has exactly one REQUESTS_STATE_CHK, with the
\* value list it had before the upgrade (no 'P'), and no statement of the
\* downgrade fails.
C37_RequestsStateCheckRoundTrip ==
    (RequestsRoundTrip /\ dialect = "mysql" /\ server.server_version = 8) =>
        /\ ddl_call[2].raised = NoException
        /\ \A i \in 1..Len(statements) : Len(ddl_call) = 2 => statements[i].ok
        /\ AfterMigration(2).tables["requests"].checks = OldStateCheck

\* What holds: on Oracle, where the constraint is dropped before it is
\* created, the round trip restores the old list.
OracleRequestsRoundTrip ==
    (RequestsRoundTrip /\ dialect = "oracle") =>
        /\ ddl_call[2].raised = NoException
        /\ AfterMigration(2).tables["requests"].checks = OldStateCheck

\* On MySQL 8 the downgrade stops at its first statement and the list with
\* 'P' stays.
MySQL8DowngradeFails ==
    (RequestsRoundTrip /\ dialect = "mysql" /\ server.server_version = 8) =>
        /\ ddl_call[2].raised = [type |-> "DatabaseError"]
        /\ \E c \in AfterMigration(2).tables["requests"].checks :
              c.values[Len(c.values) - 1] = "P"

====
